---- MODULE Spec2Model ----
(***************************************************************************)
(* The `cicada run` command of crates/cli: trigger evaluation, population  *)
(* of the pending job map, the graph engine of dag.rs (invert_graph,       *)
(* topological_sort) and the level loop of Commands::execute that starts   *)
(* one task per job of a level, joins them and applies the on_fail policy. *)
(***************************************************************************)
EXTENDS Integers, Sequences, FiniteSets, TLC

\* ------------------------------------------------------------------ bounds
\* Largest number of jobs in a pipeline document.
NumJobs == 3

\* Largest number of jobs of one run that see a reader fail on read_line.
MaxReadErrors == 1

\* Largest number of nodes, and of edges of one node, of a graph given to
\* invert_graph on its own.
MaxNodes == 2
MaxEdges == 2

\* Length of the compiled recipe written to a subprocess's input, and the
\* most lines a subprocess writes to one of its output streams.
RecipeLen == 2
MaxLines == 2

\* Most names in the `--secret` flags, and most lines of a dotenv file.
MaxSecrets == 2

\* Most steps of a job given to the compiler on its own.
MaxSteps == 2

Jobs == 1..NumJobs

\* ------------------------------------------------------- values of the model
Branches == {"main", "dev"}

\* std::env::var is Ok(value) or Err: "unset" stands for Err.
GitEvents == {"unset", "push", "pull_request", "release"}
BaseRefs == {"unset"} \cup Branches

\* Option<TriggerOn>: None or Some(Branches(list)), the list as the set of its refs.
TriggerOns == {[kind |-> "None"]} \cup [kind : {"Branches"}, refs : SUBSET Branches]

\* Option<Trigger>: None, DenoFunction or Options { push, pull_request }.
Triggers ==
    {[type |-> "None"], [type |-> "DenoFunction"]}
        \cup [type : {"Options"}, push : TriggerOns, pull_request : TriggerOns]

\* The locals git_event / base_ref and the moved pipeline.on after main.rs:472.
Dropped == "dropped"
DroppedTrigger == [type |-> "Dropped"]

OnFails == {"Ignore", "Stop", "None"}

\* Where a job's task is. "none": the job is still in the pending map.
\*   created    tokio::spawn has returned, the subprocess is not spawned
\*   running    buildctl was spawned (main.rs:724 returned Ok)
\*   spawn_err  the task returned Err at main.rs:724
\*   io_err     the task returned Err at main.rs:735, 736 or 803
\*   panicked   the task ended with a JoinError (main.rs:727, to_llb)
\*   exit0      the task returned Ok with a successful exit status
\*   exit1      the task returned Ok with a failing exit status
TaskStates ==
    {"none", "created", "running", "spawn_err", "io_err", "panicked", "exit0", "exit1"}

NoExit == -1

\* The errors Commands::execute returns to main.
NoError == "none"
TriggerFnError == "TypeScript trigger functions are unimplemented"
PopulateError == "Unable to start buildkitd, or to parse, pull or inspect an image"
CycleError == "cyclical job dependencies detected"
SecretNotFound == "Could not find secret in environment"
DotenvError == "Could not load dotenv file"
SecretsJsonError == "Could not load or parse secrets json file"
JoinErr == "task panicked"

VARIABLES
    pc,         \* position of Commands::execute (Run)
    exit,       \* exit code of the process, NoExit while it runs
    err,        \* the error execute returned to main, "none" otherwise
    git_event,  \* CICADA_GIT_EVENT as read at main.rs:433
    base_ref,   \* CICADA_BASE_REF as read at main.rs:434
    on,         \* pipeline.on
    depends_on, \* job id -> the ids in the job's depends_on
    on_fail,    \* job id -> the job's on_fail
    jobs,       \* key set of the pending map `jobs`
    graph,      \* the levels returned by topological_sort
    lvl,        \* index of the run_group the 'run_groups loop is in
    k,          \* jobs of the run_group whose map closure has run
    task,       \* job id -> state of its task
    read_err,   \* jobs one of whose readers got Err from read_line
    exit_code,  \* the local exit_code
    \* -- the graph engine on its own (SpecInvert)
    inv_pc,     \* "off", "input", "once" or "twice"
    inv_in,     \* the slice of nodes given to invert_graph
    inv_out,    \* invert_graph(inv_in)
    inv_out2,   \* invert_graph(inv_out)
    \* -- the task of one job, step by step (SpecJob)
    in_map,         \* the job is an entry of the pending map `jobs`
    job_pc,         \* position of the job's task, "off" when not exercised
    buildctl_child, \* the subprocess: "none", "alive" or "exited"
    stdin,          \* the subprocess's input: its state and the bytes written
    produced,       \* stream -> lines the subprocess has written to it
    consumed,       \* stream -> lines the stream's reader has logged
    reader,         \* stream -> state of the stream's reader task
    status,         \* the exit status collected by wait(), "none" before
    report,         \* what the task returned, "none" before
    \* -- the image resolution loop, step by step (SpecImages)
    img_pc,         \* "off", "resolve", "collected" or "failed"
    image,          \* job id -> the image the job declares
    img_i,          \* the job the loop over pipeline.jobs is at
    image_info_map, \* canonical reference string -> InspectInfo
    pull_log,       \* the reference strings given to `pull`, in order
    inspect_log,    \* the (reference string, info) results of `inspect`, in order
    populated_jobs, \* the JobResolved values pushed so far
    img_err,        \* what made the loop return Err, "none" otherwise
    \* -- the aggregation of secrets, step by step (SpecSecrets)
    sec_pc,         \* "off", "explicit", "dotenv", "json", "spawn", "spawned" or "failed"
    sec_in,         \* the flags, the environment and the files read
    all_secrets,    \* the Vec all_secrets
    sec_args,       \* the `--secret` arguments of the spawned buildctl
    sec_env,        \* name -> value of the secrets in the spawned buildctl's environment
    \* -- the compiler of a job's recipe on its own (SpecCompile)
    llb_pc,         \* "off", "input", "once" or "twice"
    llb_in,         \* the JobResolved and the arguments given to to_llb
    recipe,         \* what the first call of to_llb returned
    recipe2,        \* what the second call of to_llb returned
    \* -- the job index from the document to the compiler (SpecIndex)
    idx_pc,         \* "off", "collect", "sort", "run" or "done"
    idx_doc,        \* pipeline.jobs: the jobs in the order of the document
    idx_jobs,       \* the map `jobs`: uuid -> (index, job)
    idx_graph,      \* the levels still to run
    idx_compiled,   \* uuid -> the recipe compiled for the job
    \* -- the results of one level (SpecResults)
    res_pc,         \* "off", "loop", "next", "break" or "exited"
    results,        \* what try_join_all yielded, in the order of the level
    res_i,          \* the result the loop is at
    res_log,        \* the log lines written by the loop
    res_exit_code,  \* the local exit_code
    res_exit        \* the exit code of the process, NoExit before

runVars ==
    <<pc, exit, err, git_event, base_ref, on, depends_on, on_fail, jobs,
      graph, lvl, k, task, read_err, exit_code>>

invVars == <<inv_pc, inv_in, inv_out, inv_out2>>

jobVars ==
    <<in_map, job_pc, buildctl_child, stdin, produced, consumed, reader, status, report>>

imgVars ==
    <<img_pc, image, img_i, image_info_map, pull_log, inspect_log, populated_jobs,
      img_err>>

secVars == <<sec_pc, sec_in, all_secrets, sec_args, sec_env>>

llbVars == <<llb_pc, llb_in, recipe, recipe2>>

idxVars == <<idx_pc, idx_doc, idx_jobs, idx_graph, idx_compiled>>

resVars == <<res_pc, results, res_i, res_log, res_exit_code, res_exit>>

\* The variables the run of Commands::execute does not touch.
auxVars == <<invVars, jobVars, imgVars, secVars, llbVars, idxVars, resVars>>

vars == <<runVars, auxVars>>

\* The graph engine is not exercised on its own.
InvOff == inv_pc = "off" /\ inv_in = <<>> /\ inv_out = <<>> /\ inv_out2 = <<>>

\* The two pipes of a subprocess that carry its output.
Streams == {"stdout", "stderr"}

\* The task of a single job is not exercised on its own.
JobOff ==
    /\ in_map = FALSE
    /\ job_pc = "off"
    /\ buildctl_child = "none"
    /\ stdin = [state |-> "none", sent |-> 0]
    /\ produced = [s \in Streams |-> 0]
    /\ consumed = [s \in Streams |-> 0]
    /\ reader = [s \in Streams |-> "none"]
    /\ status = "none"
    /\ report = "none"

\* The image resolution loop is not exercised on its own.
ImgOff ==
    /\ img_pc = "off"
    /\ image = <<>>
    /\ img_i = 0
    /\ image_info_map = <<>>
    /\ pull_log = <<>>
    /\ inspect_log = <<>>
    /\ populated_jobs = <<>>
    /\ img_err = "none"

\* The aggregation of secrets is not exercised on its own.
SecOff ==
    /\ sec_pc = "off"
    /\ sec_in = <<>>
    /\ all_secrets = <<>>
    /\ sec_args = <<>>
    /\ sec_env = <<>>

\* The compiler is not exercised on its own.
LlbOff ==
    /\ llb_pc = "off"
    /\ llb_in = <<>>
    /\ recipe = <<>>
    /\ recipe2 = <<>>

\* The path of the job index is not exercised on its own.
IdxOff ==
    /\ idx_pc = "off"
    /\ idx_doc = <<>>
    /\ idx_jobs = <<>>
    /\ idx_graph = <<>>
    /\ idx_compiled = <<>>

\* The loop over the results of a level is not exercised on its own.
ResOff ==
    /\ res_pc = "off"
    /\ results = <<>>
    /\ res_i = 0
    /\ res_log = <<>>
    /\ res_exit_code = 0
    /\ res_exit = NoExit

\* The compiler, the job index and the results loop are not exercised.
CompilerOff == LlbOff /\ IdxOff /\ ResOff

AuxOff == InvOff /\ JobOff /\ ImgOff /\ SecOff /\ CompilerOff

\* ------------------------------------------------------------ sequence helpers
Range(s) == {s[i] : i \in DOMAIN s}

\* All orders in which a hash map may iterate over the keys S.
Perms(S) ==
    {f \in [1..Cardinality(S) -> S] : \A i, j \in 1..Cardinality(S) : i # j => f[i] # f[j]}

RECURSIVE SortedSeq(_)
SortedSeq(S) ==
    IF S = {} THEN <<>>
    ELSE LET m == CHOOSE x \in S : \A y \in S : x <= y
         IN <<m>> \o SortedSeq(S \ {m})

RECURSIVE Flatten(_)
Flatten(ss) == IF ss = <<>> THEN <<>> ELSE Head(ss) \o Flatten(Tail(ss))

\* ------------------------------------------------------------------ dag.rs
\* Node::new(id, edges)
Node(id, edges) == [id |-> id, edges |-> edges]

Ids(g) == {g[i].id : i \in DOMAIN g}

\* InvertedEdges with a slip: an edge of a node to itself is not pushed.
RECURSIVE InvertedEdges_SkipSelf(_, _, _)
InvertedEdges_SkipSelf(g, b, i) ==
    IF i > Len(g) THEN <<>>
    ELSE LET hits == SelectSeq(g[i].edges, LAMBDA e : e = b /\ e # g[i].id)
         IN [n \in 1..Len(hits) |-> g[i].id] \o InvertedEdges_SkipSelf(g, b, i + 1)

\* The ids pushed onto the inverted node b while the outer loop of
\* invert_graph is at graph[i] and beyond: node.id once per edge of node
\* that names b.
RECURSIVE InvertedEdges(_, _, _)
InvertedEdges(g, b, i) ==
    IF i > Len(g) THEN <<>>
    ELSE LET hits == SelectSeq(g[i].edges, LAMBDA e : e = b)
         IN [n \in 1..Len(hits) |-> g[i].id] \o InvertedEdges(g, b, i + 1)

\* invert_graph with a slip: the inverted nodes are made on demand by the
\* edge loop, so a node that gains no edge is missing.
invert_graph_OnDemand(g, order) ==
    SelectSeq([n \in 1..Len(order) |-> Node(order[n], InvertedEdges(g, order[n], 1))],
              LAMBDA node : node.edges # <<>>)

\* invert_graph with a slip: an edge to an id that is no node of g makes an
\* inverted node for that id.
invert_graph_InsertsMissing(g, order) ==
    LET all == Flatten([i \in 1..Len(g) |-> g[i].edges])
        missing == SortedSeq({all[i] : i \in DOMAIN all} \ Ids(g))
    IN [n \in 1..Len(order) |-> Node(order[n], InvertedEdges(g, order[n], 1))]
          \o [n \in 1..Len(missing) |-> Node(missing[n], InvertedEdges(g, missing[n], 1))]

\* invert_graph. An edge to an id that is no node of g finds no inverted node
\* and is skipped. `order` is the order in which inverted_nodes.into_iter()
\* yields the nodes, a permutation of the ids of g.
invert_graph(g, order) ==
    [n \in 1..Len(order) |-> Node(order[n], InvertedEdges(g, order[n], 1))]

\* InDegree with a slip: an inbound edge sets the in-degree to 1 instead of
\* adding 1 to it.
InDegree_SetToOne(g) ==
    [id \in Ids(g) |->
        IF \E i \in 1..Len(g) : id \in Range(g[i].edges) THEN 1 ELSE 0]

\* in_degree after the first two loops of topological_sort.
InDegree(g) ==
    [id \in Ids(g) |->
        Len(SelectSeq(Flatten([i \in 1..Len(g) |-> g[i].edges]), LAMBDA e : e = id))]

\* graph_map.get(&node)
NodeOf(g, id) == g[CHOOSE i \in DOMAIN g : g[i].id = id]

\* The inner loop over n.edges: decrement, push when the in-degree reaches 0.
RECURSIVE Relax(_, _, _, _)
Relax(deg, queue, edges, i) ==
    IF i > Len(edges) THEN [deg |-> deg, queue |-> queue]
    ELSE LET adjacent == edges[i]
             d == [deg EXCEPT ![adjacent] = @ - 1]
         IN Relax(d, IF d[adjacent] = 0 THEN Append(queue, adjacent) ELSE queue,
                  edges, i + 1)

\* DrainLevel with a slip: the round goes on until the queue is empty,
\* whatever its length was at the start of the round.
RECURSIVE DrainLevel_UntilEmpty(_, _, _, _, _)
DrainLevel_UntilEmpty(g, deg, queue, current, size) ==
    IF queue = <<>> THEN [deg |-> deg, queue |-> queue, current |-> current]
    ELSE LET node == queue[Len(queue)]
             r == Relax(deg, SubSeq(queue, 1, Len(queue) - 1), NodeOf(g, node).edges, 1)
         IN DrainLevel_UntilEmpty(g, r.deg, r.queue, Append(current, node), size - 1)

\* DrainLevel with a slip: a round takes one node, whatever the length of
\* the queue.
DrainLevel_OneNode(g, deg, queue, current, size) ==
    LET node == queue[Len(queue)]
        r == Relax(deg, SubSeq(queue, 1, Len(queue) - 1), NodeOf(g, node).edges, 1)
    IN [deg |-> r.deg, queue |-> r.queue, current |-> Append(current, node)]

\* `for _ in 0..size`: queue.pop() takes the LAST element of the Vec.
RECURSIVE DrainLevel(_, _, _, _, _)
DrainLevel(g, deg, queue, current, size) ==
    IF size = 0 THEN [deg |-> deg, queue |-> queue, current |-> current]
    ELSE LET node == queue[Len(queue)]
             r == Relax(deg, SubSeq(queue, 1, Len(queue) - 1), NodeOf(g, node).edges, 1)
         IN DrainLevel(g, r.deg, r.queue, Append(current, node), size - 1)

\* `while !queue.is_empty()`
RECURSIVE DrainAll(_, _, _, _)
DrainAll(g, deg, queue, execution_graph) ==
    IF queue = <<>> THEN [deg |-> deg, levels |-> execution_graph]
    ELSE LET r == DrainLevel(g, deg, queue, <<>>, Len(queue))
         IN DrainAll(g, r.deg, r.queue, Append(execution_graph, r.current))

\* topological_sort with a slip: the check of the remaining in-degrees is
\* left out.
topological_sort_NoCycleCheck(g) ==
    LET deg0 == InDegree(g)
        ids == [i \in 1..Len(g) |-> g[i].id]
        queue0 == SelectSeq(ids, LAMBDA id : deg0[id] = 0)
        r == DrainAll(g, deg0, queue0, <<>>)
    IN [ok |-> TRUE, levels |-> r.levels]

\* topological_sort: Ok(levels) or the cyclical-dependency error.
topological_sort(g) ==
    LET deg0 == InDegree(g)
        ids == [i \in 1..Len(g) |-> g[i].id]
        queue0 == SelectSeq(ids, LAMBDA id : deg0[id] = 0)
        r == DrainAll(g, deg0, queue0, <<>>)
    IN IF \E i \in 1..Len(g) : r.deg[g[i].id] # 0
       THEN [ok |-> FALSE, levels |-> <<>>]
       ELSE [ok |-> TRUE, levels |-> r.levels]

\* ------------------------------------------------------------------ main.rs
\* TriggerDecision with a slip: a function trigger is an error only for the
\* events that have a branch list.
TriggerDecision_FnOnBranchEvents(ev, ref, t) ==
    IF ev = "unset" \/ ref = "unset" THEN "run"
    ELSE IF t.type = "Options"
         THEN IF ev = "pull_request"
              THEN IF t.pull_request.kind = "Branches" /\ ref \notin t.pull_request.refs
                   THEN "skip" ELSE "run"
              ELSE IF ev = "push"
                   THEN IF t.push.kind = "Branches" /\ ref \notin t.push.refs
                        THEN "skip" ELSE "run"
                   ELSE "run"
         ELSE IF t.type = "DenoFunction" /\ ev \in {"push", "pull_request"} THEN "error"
         ELSE "run"

\* TriggerDecision with a slip: each event is checked against the branch
\* list of the other event.
TriggerDecision_OtherList(ev, ref, t) ==
    IF ev = "unset" \/ ref = "unset" THEN "run"
    ELSE IF t.type = "Options"
         THEN IF ev = "pull_request"
              THEN IF t.push.kind = "Branches" /\ ref \notin t.push.refs
                   THEN "skip" ELSE "run"
              ELSE IF ev = "push"
                   THEN IF t.pull_request.kind = "Branches" /\ ref \notin t.pull_request.refs
                        THEN "skip" ELSE "run"
                   ELSE "run"
         ELSE IF t.type = "DenoFunction" THEN "error"
         ELSE "run"

\* The trigger check of main.rs:432-472: "skip" is std::process::exit(2),
\* "error" the bail! of the DenoFunction arm, "run" falls through.
TriggerDecision(ev, ref, t) ==
    IF ev = "unset" \/ ref = "unset" THEN "run"
    ELSE IF t.type = "Options"
         THEN IF ev = "pull_request"
              THEN IF t.pull_request.kind = "Branches" /\ ref \notin t.pull_request.refs
                   THEN "skip" ELSE "run"
              ELSE IF ev = "push"
                   THEN IF t.push.kind = "Branches" /\ ref \notin t.push.refs
                        THEN "skip" ELSE "run"
                   ELSE "run"
         ELSE IF t.type = "DenoFunction" THEN "error"
         ELSE "run"

NoJobs == [j \in {} |-> {}]

\* Job ids are opaque uuids and every iteration order of the maps is taken
\* (Schedule), so a document is read up to the naming of its jobs: of the
\* documents that differ only in the naming, the one whose on_fail values
\* are in this order along the ids is taken.
OnFailRank(p) == IF p = "Ignore" THEN 0 ELSE IF p = "Stop" THEN 1 ELSE 2

Documents(n) ==
    [depends_on : [1..n -> SUBSET (1..n)],
     on_fail : {f \in [1..n -> OnFails] :
                    \A a, b \in 1..n : a < b => OnFailRank(f[a]) <= OnFailRank(f[b])}]

Init ==
    /\ pc = "trigger"
    /\ exit = NoExit
    /\ err = NoError
    /\ git_event \in GitEvents
    /\ base_ref \in BaseRefs
    /\ on \in Triggers
    /\ depends_on = NoJobs
    /\ on_fail = NoJobs
    /\ jobs = {}
    /\ graph = <<>>
    /\ lvl = 0
    /\ k = 0
    /\ task = NoJobs
    /\ read_err = {}
    /\ exit_code = 0
    /\ AuxOff

\* main.rs:432-472
CheckTrigger ==
    /\ pc = "trigger"
    /\ LET d == TriggerDecision(git_event, base_ref, on)
       IN IF d = "skip"
          THEN /\ pc' = "exited"
               /\ exit' = 2
               /\ UNCHANGED <<err, git_event, base_ref, on>>
          ELSE IF d = "error"
          THEN /\ pc' = "exited"
               /\ exit' = 1
               /\ err' = TriggerFnError
               /\ UNCHANGED <<git_event, base_ref, on>>
          ELSE /\ pc' = "populate"
               /\ git_event' = Dropped
               /\ base_ref' = Dropped
               /\ on' = DroppedTrigger
               /\ UNCHANGED <<exit, err>>
    /\ UNCHANGED <<depends_on, on_fail, jobs, graph, lvl, k, task, read_err, exit_code>>
    /\ UNCHANGED auxVars

\* main.rs:498-628: the buildkitd container is started, every job's image is
\* pulled and inspected, and the jobs are collected into the map keyed by
\* uuid. The document's jobs are the input read here.
PopulateOk ==
    /\ pc = "populate"
    /\ \E n \in 0..NumJobs : \E doc \in Documents(n) :
        /\ depends_on' = doc.depends_on
        /\ on_fail' = doc.on_fail
        /\ jobs' = 1..n
        /\ task' = [j \in 1..n |-> "none"]
    /\ pc' = "schedule"
    /\ UNCHANGED <<exit, err, git_event, base_ref, on, graph, lvl, k, read_err, exit_code>>
    /\ UNCHANGED auxVars

\* main.rs:508, 537-544, 553-609: a `?` or bail! before the map is built.
PopulateErr ==
    /\ pc = "populate"
    /\ pc' = "exited"
    /\ exit' = 1
    /\ err' = PopulateError
    /\ UNCHANGED <<git_event, base_ref, on, depends_on, on_fail, jobs, graph, lvl, k,
                   task, read_err, exit_code>>
    /\ UNCHANGED auxVars

\* main.rs:673-676: one Node per value of the map, in the map's iteration order.
Nodes(order) ==
    [i \in 1..Len(order) |-> Node(order[i], SortedSeq(depends_on[order[i]]))]

\* main.rs:673-680. Both hash maps (jobs, inverted_nodes) iterate in an
\* order of their own.
Schedule ==
    /\ pc = "schedule"
    /\ \E order1 \in Perms(jobs), order2 \in Perms(jobs) :
        LET r == topological_sort(invert_graph(Nodes(order1), order2))
        IN IF ~r.ok
           THEN /\ pc' = "exited"
                /\ exit' = 1
                /\ err' = CycleError
                /\ UNCHANGED <<graph, lvl>>
           ELSE IF r.levels = <<>>
           THEN /\ pc' = "exited"
                /\ exit' = 0
                /\ UNCHANGED <<err, graph, lvl>>
           ELSE /\ pc' = "dispatch"
                /\ graph' = r.levels
                /\ lvl' = 1
                /\ UNCHANGED <<exit, err>>
    /\ k' = 0
    /\ exit_code' = 0
    /\ UNCHANGED <<git_event, base_ref, on, depends_on, on_fail, jobs, task, read_err>>
    /\ UNCHANGED auxVars

\* Dispatch with a slip: the whole run_group is taken out of the map when
\* its first job is.
Dispatch_RemovesLevel ==
    /\ pc = "dispatch"
    /\ LET job == graph[lvl][k + 1]
       IN IF job \notin jobs
          THEN /\ pc' = "exited"
               /\ exit' = 101
               /\ UNCHANGED <<jobs, task, k>>
          ELSE /\ jobs' = jobs \ Range(graph[lvl])
               /\ task' = [task EXCEPT ![job] = "created"]
               /\ k' = k + 1
               /\ pc' = IF k + 1 = Len(graph[lvl]) THEN "join" ELSE "dispatch"
               /\ UNCHANGED exit
    /\ UNCHANGED <<err, git_event, base_ref, on, depends_on, on_fail, graph, lvl,
                   read_err, exit_code>>
    /\ UNCHANGED auxVars

\* Dispatch with a slip: the job is looked up in the map and not removed.
Dispatch_KeepsEntry ==
    /\ pc = "dispatch"
    /\ LET job == graph[lvl][k + 1]
       IN IF job \notin jobs
          THEN /\ pc' = "exited"
               /\ exit' = 101
               /\ UNCHANGED <<jobs, task, k>>
          ELSE /\ jobs' = jobs
               /\ task' = [task EXCEPT ![job] = "created"]
               /\ k' = k + 1
               /\ pc' = IF k + 1 = Len(graph[lvl]) THEN "join" ELSE "dispatch"
               /\ UNCHANGED exit
    /\ UNCHANGED <<err, git_event, base_ref, on, depends_on, on_fail, graph, lvl,
                   read_err, exit_code>>
    /\ UNCHANGED auxVars

\* main.rs:681-694: the map closure for the next job of the run_group.
\* jobs.remove(&job).unwrap() panics on the main task when the id is gone.
Dispatch ==
    /\ pc = "dispatch"
    /\ LET job == graph[lvl][k + 1]
       IN IF job \notin jobs
          THEN /\ pc' = "exited"
               /\ exit' = 101
               /\ UNCHANGED <<jobs, task, k>>
          ELSE /\ jobs' = jobs \ {job}
               /\ task' = [task EXCEPT ![job] = "created"]
               /\ k' = k + 1
               /\ pc' = IF k + 1 = Len(graph[lvl]) THEN "join" ELSE "dispatch"
               /\ UNCHANGED exit
    /\ UNCHANGED <<err, git_event, base_ref, on, depends_on, on_fail, graph, lvl,
                   read_err, exit_code>>
    /\ UNCHANGED auxVars

\* main.rs:696-724
SpawnSubprocess(job) ==
    /\ pc \in {"dispatch", "join"}
    /\ job \in DOMAIN task
    /\ task[job] = "created"
    /\ \E r \in {"running", "spawn_err"} : task' = [task EXCEPT ![job] = r]
    /\ UNCHANGED <<pc, exit, err, git_event, base_ref, on, depends_on, on_fail, jobs,
                   graph, lvl, k, read_err, exit_code>>
    /\ UNCHANGED auxVars

\* main.rs:726-805. A reader that gets Err from read_line logs it and
\* returns (main.rs:749-756, 772-779); its JoinHandle still yields Ok.
FinishJob(job) ==
    /\ pc \in {"dispatch", "join"}
    /\ job \in DOMAIN task
    /\ task[job] = "running"
    /\ \E r \in {"io_err", "panicked", "exit0", "exit1"} :
        task' = [task EXCEPT ![job] = r]
    /\ \E failed_read \in BOOLEAN :
        /\ failed_read => Cardinality(read_err) < MaxReadErrors
        /\ read_err' = IF failed_read THEN read_err \cup {job} ELSE read_err
    /\ UNCHANGED <<pc, exit, err, git_event, base_ref, on, depends_on, on_fail, jobs,
                   graph, lvl, k, exit_code>>
    /\ UNCHANGED auxVars

\* Terminal with a slip: a failed exit status does not end the task.
Terminal_SuccessOnly == {"spawn_err", "io_err", "panicked", "exit0"}

\* What the task's JoinHandle yields once the task has ended.
Terminal == {"spawn_err", "io_err", "panicked", "exit0", "exit1"}

\* Breaks with a slip: a job without on_fail is not taken as Stop.
Breaks_StopOnly(job) ==
    \/ task[job] \in {"spawn_err", "io_err"}
    \/ task[job] = "exit1" /\ on_fail[job] = "Stop"

\* Breaks with a slip: the Ignore arm is missing.
Breaks_AnyFailure(job) ==
    \/ task[job] \in {"spawn_err", "io_err"}
    \/ task[job] = "exit1"

\* main.rs:815-832: TRUE when the result of `job` takes a `break 'run_groups`.
Breaks(job) ==
    \/ task[job] \in {"spawn_err", "io_err"}
    \/ task[job] = "exit1" /\ on_fail[job] \in {"Stop", "None"}

\* AllJoined with a slip: the first task that ends makes the join ready.
AllJoined_FirstResult ==
    \E i \in 1..Len(graph[lvl]) : task[graph[lvl][i]] \in Terminal \ {"panicked"}

\* main.rs:681, 810: try_join_all is ready with Ok(results) once every task
\* of the run_group has ended without a JoinError.
AllJoined ==
    \A i \in 1..Len(graph[lvl]) : task[graph[lvl][i]] \in Terminal \ {"panicked"}

\* main.rs:810-847: try_join_all yields Ok(results), the results are handled
\* in the order of the run_group, and the loop goes on, breaks or ends.
LevelResults ==
    /\ pc = "join"
    /\ AllJoined
    /\ IF \E i \in 1..Len(graph[lvl]) : Breaks(graph[lvl][i])
       THEN /\ exit_code' = 1
            /\ pc' = "exited"
            /\ exit' = 1
            /\ UNCHANGED <<lvl, k>>
       ELSE IF lvl = Len(graph)
       THEN /\ pc' = "exited"
            /\ exit' = exit_code
            /\ UNCHANGED <<lvl, k, exit_code>>
       ELSE /\ pc' = "dispatch"
            /\ lvl' = lvl + 1
            /\ k' = 0
            /\ UNCHANGED <<exit, exit_code>>
    /\ UNCHANGED <<err, git_event, base_ref, on, depends_on, on_fail, jobs, graph,
                   task, read_err>>
    /\ UNCHANGED auxVars

\* main.rs:836: try_join_all yields the first JoinError it polls, whatever
\* the other tasks of the level are doing; execute returns it and main
\* (main.rs:1129-1138) ends the process with ExitCode::FAILURE.
JoinError ==
    /\ pc = "join"
    /\ \E i \in 1..Len(graph[lvl]) : task[graph[lvl][i]] = "panicked"
    /\ pc' = "exited"
    /\ exit' = 1
    /\ err' = JoinErr
    /\ UNCHANGED <<git_event, base_ref, on, depends_on, on_fail, jobs, graph, lvl, k,
                   task, read_err, exit_code>>
    /\ UNCHANGED auxVars

Next ==
    \/ CheckTrigger
    \/ PopulateOk
    \/ PopulateErr
    \/ Schedule
    \/ Dispatch
    \/ \E job \in Jobs : SpawnSubprocess(job)
    \/ \E job \in Jobs : FinishJob(job)
    \/ LevelResults
    \/ JoinError

Spec == Init /\ [][Next]_vars

\* The steps of a run that wait for something: the main future or a task
\* to be polled, a subprocess to end.
Progress ==
    \/ CheckTrigger
    \/ Dispatch
    \/ \E job \in Jobs : SpawnSubprocess(job)
    \/ \E job \in Jobs : FinishJob(job)
    \/ LevelResults
    \/ JoinError

\* The run under the scheduling of the runtime: tokio polls every spawned
\* task and the main future until they are ready, and a spawned subprocess
\* consumes its input, closes its output streams and exits, so a step that
\* can be taken is taken in the end. Reading the document (PopulateOk,
\* PopulateErr) and the sort (Schedule) are steps of the main future that
\* are enabled exactly when pc is "populate" or "schedule" and that leave
\* that place, so their weak fairness is that the run is again and again at
\* neither place.
FairSpec == Spec /\ WF_vars(Progress) /\ []<>(pc \notin {"populate", "schedule"})

TypeOK ==
    /\ pc \in {"off", "trigger", "populate", "schedule", "dispatch", "join", "exited"}
    /\ exit \in {NoExit, 0, 1, 2, 101}
    /\ DOMAIN task = DOMAIN depends_on
    /\ \A j \in DOMAIN task : task[j] \in TaskStates
    /\ jobs \subseteq Jobs
    /\ read_err \subseteq Jobs
    /\ exit_code \in {0, 1}

\* The run of Commands::execute is not exercised.
RunOff ==
    /\ pc = "off"
    /\ exit = NoExit
    /\ err = NoError
    /\ git_event = Dropped
    /\ base_ref = Dropped
    /\ on = DroppedTrigger
    /\ depends_on = NoJobs
    /\ on_fail = NoJobs
    /\ jobs = {}
    /\ graph = <<>>
    /\ lvl = 0
    /\ k = 0
    /\ task = NoJobs
    /\ read_err = {}
    /\ exit_code = 0

\* --------------------------------------------- dag.rs: invert_graph on its own
\* The edge lists of a node: any ids, 0 being an id that no node carries.
EdgeLists == UNION {[1..m -> 0..MaxNodes] : m \in 0..MaxEdges}

\* The slices of nodes with distinct ids, in any order.
InvInputs ==
    UNION {{[i \in 1..n |-> Node(order[i], edges[order[i]])] :
                order \in Perms(1..n), edges \in [1..n -> EdgeLists]} :
           n \in 0..MaxNodes}

InitInvert ==
    /\ RunOff
    /\ JobOff
    /\ ImgOff
    /\ SecOff
    /\ CompilerOff
    /\ inv_pc = "input"
    /\ inv_in \in InvInputs
    /\ inv_out = <<>>
    /\ inv_out2 = <<>>

\* dag.rs:20-35 applied to the input.
InvertOnce ==
    /\ inv_pc = "input"
    /\ \E order \in Perms(Ids(inv_in)) : inv_out' = invert_graph(inv_in, order)
    /\ inv_pc' = "once"
    /\ UNCHANGED <<runVars, jobVars, imgVars, secVars, llbVars, idxVars, resVars, inv_in, inv_out2>>

\* dag.rs:20-35 applied to its own result.
InvertTwice ==
    /\ inv_pc = "once"
    /\ \E order \in Perms(Ids(inv_out)) : inv_out2' = invert_graph(inv_out, order)
    /\ inv_pc' = "twice"
    /\ UNCHANGED <<runVars, jobVars, imgVars, secVars, llbVars, idxVars, resVars, inv_in, inv_out>>

NextInvert ==
    \/ InvertOnce
    \/ InvertTwice

SpecInvert == InitInvert /\ [][NextInvert]_vars

\* dag.rs:47-51, 68: in_degree.get_mut(edge).unwrap() panics on an edge to an
\* id that is no node of the graph.
MissingNode(g) ==
    \E i \in DOMAIN g : \E e \in DOMAIN g[i].edges : g[i].edges[e] \notin Ids(g)

\* The panic of a task or of the main future.
Panic == [panic |-> TRUE]

\* main.rs:677: topological_sort applied to the inverted graph.
SortInverted ==
    /\ inv_pc = "once"
    /\ inv_out2' = IF MissingNode(inv_out) THEN Panic ELSE topological_sort(inv_out)
    /\ inv_pc' = "sorted"
    /\ UNCHANGED <<runVars, jobVars, imgVars, secVars, llbVars, idxVars, resVars, inv_in, inv_out>>

NextSort ==
    \/ InvertOnce
    \/ SortInverted

\* main.rs:673-677 on every slice of nodes, those with edges to ids that are
\* no node among them.
SpecSort == InitInvert /\ [][NextSort]_vars

\* ----------------------------------- main.rs: the task of one job, step by step
InitJob ==
    /\ RunOff
    /\ InvOff
    /\ ImgOff
    /\ SecOff
    /\ CompilerOff
    /\ in_map = TRUE
    /\ job_pc = "pending"
    /\ buildctl_child = "none"
    /\ stdin = [state |-> "none", sent |-> 0]
    /\ produced = [s \in Streams |-> 0]
    /\ consumed = [s \in Streams |-> 0]
    /\ reader = [s \in Streams |-> "none"]
    /\ status = "none"
    /\ report = "none"

\* A `?` makes the task return Err: its locals are dropped, which closes the
\* input pipe if it is still held; the subprocess is not killed.
Dropped_stdin == IF stdin.state = "open" THEN [stdin EXCEPT !.state = "dropped"] ELSE stdin

\* main.rs:682, 694: the job leaves the pending map and its task is created.
JobRemove ==
    /\ job_pc = "pending"
    /\ in_map' = FALSE
    /\ job_pc' = "removed"
    /\ UNCHANGED <<buildctl_child, stdin, produced, consumed, reader, status, report>>
    /\ UNCHANGED <<runVars, invVars, imgVars, secVars, llbVars, idxVars, resVars>>

\* main.rs:696-724: buildctl is spawned with its three pipes, or spawn fails.
JobSpawn ==
    /\ job_pc = "removed"
    /\ \/ /\ job_pc' = "spawned"
          /\ buildctl_child' = "alive"
          /\ stdin' = [state |-> "open", sent |-> 0]
          /\ UNCHANGED report
       \/ /\ job_pc' = "done"
          /\ report' = "err"
          /\ UNCHANGED <<buildctl_child, stdin>>
    /\ UNCHANGED <<in_map, produced, consumed, reader, status>>
    /\ UNCHANGED <<runVars, invVars, imgVars, secVars, llbVars, idxVars, resVars>>

\* main.rs:726-732: to_llb compiles the recipe, or panics on a job without
\* a name (job.rs:307-310).
JobCompile ==
    /\ job_pc = "spawned"
    /\ \/ /\ job_pc' = "compiled"
          /\ UNCHANGED <<stdin, report>>
       \/ /\ job_pc' = "done"
          /\ report' = "panic"
          /\ stdin' = Dropped_stdin
    /\ UNCHANGED <<in_map, buildctl_child, produced, consumed, reader, status>>
    /\ UNCHANGED <<runVars, invVars, imgVars, secVars, llbVars, idxVars, resVars>>

\* main.rs:734-735: write_all returns Ok once every byte is written, or
\* Err after some of them.
JobWriteAll ==
    /\ job_pc = "compiled"
    /\ \/ /\ job_pc' = "written"
          /\ stdin' = [stdin EXCEPT !.sent = RecipeLen]
          /\ UNCHANGED report
       \/ /\ job_pc' = "done"
          /\ report' = "err"
          /\ \E n \in 0..(RecipeLen - 1) : stdin' = [state |-> "dropped", sent |-> n]
    /\ UNCHANGED <<in_map, buildctl_child, produced, consumed, reader, status>>
    /\ UNCHANGED <<runVars, invVars, imgVars, secVars, llbVars, idxVars, resVars>>

\* JobShutdown with a slip: the input is left open.
JobShutdown_LeavesOpen ==
    /\ job_pc = "written"
    /\ job_pc' = "closed"
    /\ UNCHANGED <<stdin, report>>
    /\ UNCHANGED <<in_map, buildctl_child, produced, consumed, reader, status>>
    /\ UNCHANGED <<runVars, invVars, imgVars, secVars, llbVars, idxVars, resVars>>

\* main.rs:736-737: the input is shut down and dropped.
JobShutdown ==
    /\ job_pc = "written"
    /\ \/ /\ job_pc' = "closed"
          /\ stdin' = [stdin EXCEPT !.state = "shutdown"]
          /\ UNCHANGED report
       \/ /\ job_pc' = "done"
          /\ report' = "err"
          /\ stdin' = Dropped_stdin
    /\ UNCHANGED <<in_map, buildctl_child, produced, consumed, reader, status>>
    /\ UNCHANGED <<runVars, invVars, imgVars, secVars, llbVars, idxVars, resVars>>

\* main.rs:740-789: the reader tasks are spawned, stdout's first.
JobSpawnReader ==
    /\ job_pc \in {"closed", "stdout_handle"}
    /\ IF job_pc = "closed"
       THEN /\ reader' = [reader EXCEPT !["stdout"] = "reading"]
            /\ job_pc' = "stdout_handle"
       ELSE /\ reader' = [reader EXCEPT !["stderr"] = "reading"]
            /\ job_pc' = "stderr_handle"
    /\ UNCHANGED <<in_map, buildctl_child, stdin, produced, consumed, status, report>>
    /\ UNCHANGED <<runVars, invVars, imgVars, secVars, llbVars, idxVars, resVars>>

\* The subprocess writes a line to one of its output streams.
ChildWrite(s) ==
    /\ buildctl_child = "alive"
    /\ produced[s] < MaxLines
    /\ produced' = [produced EXCEPT ![s] = @ + 1]
    /\ UNCHANGED <<in_map, job_pc, buildctl_child, stdin, consumed, reader, status, report>>
    /\ UNCHANGED <<runVars, invVars, imgVars, secVars, llbVars, idxVars, resVars>>

\* The subprocess ends, which closes its ends of the pipes.
ChildExit ==
    /\ buildctl_child = "alive"
    /\ buildctl_child' = "exited"
    /\ UNCHANGED <<in_map, job_pc, stdin, produced, consumed, reader, status, report>>
    /\ UNCHANGED <<runVars, invVars, imgVars, secVars, llbVars, idxVars, resVars>>

\* main.rs:748-762, 771-786: one round of a reader's loop. read_line yields
\* a line that is logged, or nothing at the end of the stream, which ends
\* the reader, or Err, which is logged and ends the reader as well.
ReadLine(s) ==
    /\ reader[s] = "reading"
    /\ \/ /\ consumed[s] < produced[s]
          /\ consumed' = [consumed EXCEPT ![s] = @ + 1]
          /\ UNCHANGED reader
       \/ /\ consumed[s] < produced[s]
          /\ reader' = [reader EXCEPT ![s] = "err"]
          /\ UNCHANGED consumed
       \/ /\ consumed[s] = produced[s]
          /\ buildctl_child = "exited"
          /\ reader' = [reader EXCEPT ![s] = "eof"]
          /\ UNCHANGED consumed
    /\ UNCHANGED <<in_map, job_pc, buildctl_child, stdin, produced, status, report>>
    /\ UNCHANGED <<runVars, invVars, imgVars, secVars, llbVars, idxVars, resVars>>

\* The reader task of the stream has returned.
ReaderEnded(s) == reader[s] \in {"eof", "err"}

\* main.rs:793-798: the handles are awaited, stdout's first; a reader that
\* returned yields Ok whatever made it return.
JobJoinReader ==
    /\ job_pc \in {"stderr_handle", "stdout_joined"}
    /\ IF job_pc = "stderr_handle"
       THEN /\ ReaderEnded("stdout")
            /\ job_pc' = "stdout_joined"
       ELSE /\ ReaderEnded("stderr")
            /\ job_pc' = "stderr_joined"
    /\ UNCHANGED <<in_map, buildctl_child, stdin, produced, consumed, reader, status, report>>
    /\ UNCHANGED <<runVars, invVars, imgVars, secVars, llbVars, idxVars, resVars>>

\* main.rs:800-803: wait() yields the exit status of the ended subprocess,
\* or Err.
JobWait ==
    /\ job_pc = "stderr_joined"
    /\ buildctl_child = "exited"
    /\ \/ /\ \E st \in {"exit0", "exit1"} : status' = st
          /\ job_pc' = "waited"
          /\ UNCHANGED report
       \/ /\ job_pc' = "done"
          /\ report' = "err"
          /\ UNCHANGED status
    /\ UNCHANGED <<in_map, buildctl_child, stdin, produced, consumed, reader>>
    /\ UNCHANGED <<runVars, invVars, imgVars, secVars, llbVars, idxVars, resVars>>

\* main.rs:805: the task returns (long_name, status, job).
JobReport ==
    /\ job_pc = "waited"
    /\ job_pc' = "done"
    /\ report' = status
    /\ UNCHANGED <<in_map, buildctl_child, stdin, produced, consumed, reader, status>>
    /\ UNCHANGED <<runVars, invVars, imgVars, secVars, llbVars, idxVars, resVars>>

NextJob ==
    \/ JobRemove
    \/ JobSpawn
    \/ JobCompile
    \/ JobWriteAll
    \/ JobShutdown
    \/ JobSpawnReader
    \/ \E s \in Streams : ChildWrite(s)
    \/ ChildExit
    \/ \E s \in Streams : ReadLine(s)
    \/ JobJoinReader
    \/ JobWait
    \/ JobReport

SpecJob == InitJob /\ [][NextJob]_vars

\* ------------------------------- main.rs: the image resolution loop, step by step
\* An image as a job declares it: name[:tag][@digest], "" for a part that is
\* not given.
ImageNames == {"alpine", "docker.io/library/alpine", "ghcr.io/o/app"}
Tags == {"", "latest", "3"}
Digests == {"", "sha256:a"}

\* A string that is no image reference.
Unparseable == [name |-> "Not An Image", tag |-> "", digest |-> ""]

Images == [name : ImageNames, tag : Tags, digest : Digests] \cup {Unparseable}

\* The InspectInfo values an inspect may yield; what a reference points to
\* may change between two pulls.
Infos == {"info1", "info2"}

\* main.rs:552: Reference::parse_normalized_named. A familiar name is
\* expanded to its full repository; tag and digest are taken as given.
parse_normalized_named(img) ==
    IF img.name \notin ImageNames
    THEN [ok |-> FALSE, reference |-> [repository |-> "", tag |-> "", digest |-> ""]]
    ELSE [ok |-> TRUE,
          reference |-> [repository |-> IF img.name = "alpine"
                                        THEN "docker.io/library/alpine"
                                        ELSE img.name,
                         tag |-> img.tag,
                         digest |-> img.digest]]

\* main.rs:561-563
DefaultTag(ref) ==
    IF ref.tag = "" /\ ref.digest = "" THEN [ref EXCEPT !.tag = "latest"] ELSE ref

\* to_string with a slip: the tag is left out.
to_string_NoTag(ref) ==
    <<ref.repository>> \o (IF ref.digest # "" THEN <<"@", ref.digest>> ELSE <<>>)

\* main.rs:565: the reference as a string, the parts in a sequence.
to_string(ref) ==
    <<ref.repository>>
        \o (IF ref.tag # "" THEN <<":", ref.tag>> ELSE <<>>)
        \o (IF ref.digest # "" THEN <<"@", ref.digest>> ELSE <<>>)

\* The state of the run when the loop is entered (main.rs:549).
InitImages ==
    /\ pc = "populate"
    /\ exit = NoExit
    /\ err = NoError
    /\ git_event = Dropped
    /\ base_ref = Dropped
    /\ on = DroppedTrigger
    /\ depends_on = NoJobs
    /\ on_fail = NoJobs
    /\ jobs = {}
    /\ graph = <<>>
    /\ lvl = 0
    /\ k = 0
    /\ task = NoJobs
    /\ read_err = {}
    /\ exit_code = 0
    /\ InvOff
    /\ JobOff
    /\ SecOff
    /\ CompilerOff
    /\ img_pc = "resolve"
    /\ image \in [Jobs -> Images]
    /\ img_i = 1
    /\ image_info_map = <<>>
    /\ pull_log = <<>>
    /\ inspect_log = <<>>
    /\ populated_jobs = <<>>
    /\ img_err = "none"

\* A `?` or bail! of the loop: execute returns Err, main ends the process.
ImageFails(kind) ==
    /\ img_pc' = "failed"
    /\ img_err' = kind
    /\ pc' = "exited"
    /\ exit' = 1
    /\ err' = PopulateError
    /\ UNCHANGED <<img_i, image_info_map, populated_jobs>>

\* main.rs:617-621: the resolved job is pushed and the loop goes on.
PushResolved(job, info, ref) ==
    /\ populated_jobs' =
        Append(populated_jobs, [job |-> job, image_info |-> info, image_reference |-> ref])
    /\ img_i' = img_i + 1
    /\ UNCHANGED <<img_pc, img_err, pc, exit, err>>

\* ResolveImage with a slip: a job whose image fails is skipped.
ResolveImage_SkipsFailed ==
    /\ img_pc = "resolve"
    /\ img_i <= NumJobs
    /\ LET parsed == parse_normalized_named(image[img_i])
           ref == DefaultTag(parsed.reference)
           str == to_string(ref)
       IN IF ~parsed.ok
          THEN /\ img_err' = "parse"
               /\ img_i' = img_i + 1
               /\ UNCHANGED <<image_info_map, pull_log, inspect_log, populated_jobs>>
          ELSE IF str \in DOMAIN image_info_map
          THEN /\ PushResolved(img_i, image_info_map[str], ref)
               /\ UNCHANGED <<image_info_map, pull_log, inspect_log>>
          ELSE /\ pull_log' = Append(pull_log, [job |-> img_i, ref |-> str])
               /\ \/ /\ img_err' = "pull"
                     /\ img_i' = img_i + 1
                     /\ UNCHANGED <<image_info_map, inspect_log, populated_jobs>>
                  \/ \E info \in Infos :
                        /\ inspect_log' =
                            Append(inspect_log, [job |-> img_i, ref |-> str, info |-> info])
                        /\ image_info_map' =
                            [x \in DOMAIN image_info_map \cup {str} |->
                                IF x = str THEN info ELSE image_info_map[x]]
                        /\ populated_jobs' =
                            Append(populated_jobs,
                                   [job |-> img_i, image_info |-> info, image_reference |-> ref])
                        /\ img_i' = img_i + 1
                        /\ UNCHANGED img_err
    /\ UNCHANGED <<img_pc, pc, exit, err>>
    /\ UNCHANGED <<image, git_event, base_ref, on, depends_on, on_fail, jobs, graph, lvl,
                   k, task, read_err, exit_code>>
    /\ UNCHANGED <<invVars, jobVars, secVars, llbVars, idxVars, resVars>>

\* main.rs:552-621: one round of the loop over pipeline.jobs. The image is
\* parsed and its tag defaulted; on a hit of image_info_map the info is
\* taken from the map, on a miss the reference is pulled and inspected and
\* the info inserted. An inspect whose output does not deserialize counts
\* as a failed inspect.
ResolveImage ==
    /\ img_pc = "resolve"
    /\ img_i <= NumJobs
    /\ LET parsed == parse_normalized_named(image[img_i])
           ref == DefaultTag(parsed.reference)
           str == to_string(ref)
       IN IF ~parsed.ok
          THEN /\ ImageFails("parse")
               /\ UNCHANGED <<pull_log, inspect_log>>
          ELSE IF str \in DOMAIN image_info_map
          THEN /\ PushResolved(img_i, image_info_map[str], ref)
               /\ UNCHANGED <<image_info_map, pull_log, inspect_log>>
          ELSE /\ pull_log' = Append(pull_log, [job |-> img_i, ref |-> str])
               /\ \/ /\ ImageFails("pull")
                     /\ UNCHANGED inspect_log
                  \/ /\ ImageFails("inspect")
                     /\ UNCHANGED inspect_log
                  \/ \E info \in Infos :
                        /\ inspect_log' =
                            Append(inspect_log, [job |-> img_i, ref |-> str, info |-> info])
                        /\ image_info_map' =
                            [x \in DOMAIN image_info_map \cup {str} |->
                                IF x = str THEN info ELSE image_info_map[x]]
                        /\ PushResolved(img_i, info, ref)
    /\ UNCHANGED <<image, git_event, base_ref, on, depends_on, on_fail, jobs, graph, lvl,
                   k, task, read_err, exit_code>>
    /\ UNCHANGED <<invVars, jobVars, secVars, llbVars, idxVars, resVars>>

\* main.rs:624-628: the resolved jobs are moved into the map `jobs`, keyed
\* by uuid. The run that follows keeps the keys of the map; the loop's
\* locals are not used again. The jobs are taken to be independent and
\* without on_fail.
CollectJobs ==
    /\ img_pc = "resolve"
    /\ img_i = NumJobs + 1
    /\ LET keys == {populated_jobs[i].job : i \in DOMAIN populated_jobs}
       IN /\ jobs' = keys
          /\ depends_on' = [j \in keys |-> {}]
          /\ on_fail' = [j \in keys |-> "None"]
          /\ task' = [j \in keys |-> "none"]
    /\ pc' = "schedule"
    /\ img_pc' = "collected"
    /\ image' = <<>>
    /\ image_info_map' = <<>>
    /\ pull_log' = <<>>
    /\ inspect_log' = <<>>
    /\ populated_jobs' = <<>>
    /\ UNCHANGED <<img_i, img_err>>
    /\ UNCHANGED <<exit, err, git_event, base_ref, on, graph, lvl, k, read_err, exit_code>>
    /\ UNCHANGED <<invVars, jobVars, secVars, llbVars, idxVars, resVars>>

NextImages ==
    \/ ResolveImage
    \/ CollectJobs
    \/ Schedule
    \/ Dispatch
    \/ \E job \in Jobs : SpawnSubprocess(job)
    \/ \E job \in Jobs : FinishJob(job)
    \/ LevelResults
    \/ JoinError

SpecImages == InitImages /\ [][NextImages]_vars

\* --------------------------------- main.rs: the secrets of a run, step by step
SecretNames == {"X", "BUILDKIT_HOST"}

\* The OCI backend chosen on the command line.
OciBackends == {"docker", "podman"}

\* main.rs:704-709: format!("{}-container://cicada-buildkitd", oci_backend).
BackendTarget(oci_backend) ==
    IF oci_backend = "docker" THEN "docker-container://cicada-buildkitd"
    ELSE "podman-container://cicada-buildkitd"

\* The sequences over S of at most n elements.
SeqUpTo(S, n) == UNION {[1..m -> S] : m \in 0..n}

\* A line of a dotenv file: a pair, or a line the iterator yields Err for.
DotenvLines == [ok : {TRUE}, key : SecretNames, value : {"d"}]
                   \cup {[ok |-> FALSE, key |-> "", value |-> ""]}

\* The file --secrets-json names: not given, not readable, not a JSON object
\* of strings, or such an object.
SecretsJsons ==
    {[kind |-> kind, map |-> <<>>] : kind \in {"none", "missing", "malformed"}}
        \cup {[kind |-> "map", map |-> m] :
                 m \in UNION {[D -> {"2"}] : D \in SUBSET SecretNames}}

\* The flags of the command line, the process environment ("unset": the
\* variable is absent) and the files.
SecretInputs ==
    [secret : SeqUpTo(SecretNames, MaxSecrets),
     environ : [SecretNames -> {"unset", "1"}],
     no_dotenv : BOOLEAN,
     dotenv : {"none", "path"},
     dotenv_file : [exists : BOOLEAN, lines : SeqUpTo(DotenvLines, MaxSecrets)],
     secrets_json : SecretsJsons,
     oci_backend : OciBackends]

InitSecrets ==
    /\ RunOff
    /\ InvOff
    /\ JobOff
    /\ ImgOff
    /\ CompilerOff
    /\ sec_pc = "explicit"
    /\ sec_in \in {i \in SecretInputs : ~i.dotenv_file.exists => i.dotenv_file.lines = <<>>}
    /\ all_secrets = <<>>
    /\ sec_args = <<>>
    /\ sec_env = <<>>

\* A `?` of the aggregation: execute returns Err, main ends the process.
SecretsFail(error) ==
    /\ sec_pc' = "failed"
    /\ exit' = 1
    /\ err' = error
    /\ UNCHANGED all_secrets

\* The (name, value) pairs of the first n explicit secrets.
ExplicitPairs(n) == [i \in 1..n |-> <<sec_in.secret[i], sec_in.environ[sec_in.secret[i]]>>]

\* ExplicitSecrets with a slip: a name that is not in the environment is
\* passed over.
ExplicitSecrets_SkipsAbsent ==
    /\ sec_pc = "explicit"
    /\ all_secrets' = SelectSeq(ExplicitPairs(Len(sec_in.secret)), LAMBDA p : p[2] # "unset")
    /\ sec_pc' = "dotenv"
    /\ UNCHANGED <<exit, err>>
    /\ UNCHANGED <<pc, git_event, base_ref, on, depends_on, on_fail, jobs, graph, lvl, k,
                   task, read_err, exit_code>>
    /\ UNCHANGED <<sec_in, sec_args, sec_env>>
    /\ UNCHANGED <<invVars, jobVars, imgVars, llbVars, idxVars, resVars>>

\* main.rs:633-640: every name of the --secret flags is looked up in the
\* environment, in order; the first that is absent ends the run.
ExplicitSecrets ==
    /\ sec_pc = "explicit"
    /\ IF \E i \in DOMAIN sec_in.secret : sec_in.environ[sec_in.secret[i]] = "unset"
       THEN SecretsFail(SecretNotFound)
       ELSE /\ all_secrets' = all_secrets \o ExplicitPairs(Len(sec_in.secret))
            /\ sec_pc' = "dotenv"
            /\ UNCHANGED <<exit, err>>
    /\ UNCHANGED <<pc, git_event, base_ref, on, depends_on, on_fail, jobs, graph, lvl, k,
                   task, read_err, exit_code>>
    /\ UNCHANGED <<sec_in, sec_args, sec_env>>
    /\ UNCHANGED <<invVars, jobVars, imgVars, llbVars, idxVars, resVars>>

\* main.rs:651-654: iter.flatten() passes over the lines that are Err.
DotenvPairs(lines) ==
    LET good == SelectSeq(lines, LAMBDA l : l.ok)
    IN [i \in 1..Len(good) |-> <<good[i].key, good[i].value>>]

\* main.rs:642-656: unless --no-dotenv, the file --dotenv names must load;
\* without --dotenv the file .env is read if there is one.
DotenvSecrets ==
    /\ sec_pc = "dotenv"
    /\ IF sec_in.no_dotenv
       THEN /\ sec_pc' = "json"
            /\ UNCHANGED <<all_secrets, exit, err>>
       ELSE IF sec_in.dotenv = "path" /\ ~sec_in.dotenv_file.exists
       THEN SecretsFail(DotenvError)
       ELSE /\ all_secrets' =
                all_secrets \o (IF sec_in.dotenv_file.exists
                                THEN DotenvPairs(sec_in.dotenv_file.lines)
                                ELSE <<>>)
            /\ sec_pc' = "json"
            /\ UNCHANGED <<exit, err>>
    /\ UNCHANGED <<pc, git_event, base_ref, on, depends_on, on_fail, jobs, graph, lvl, k,
                   task, read_err, exit_code>>
    /\ UNCHANGED <<sec_in, sec_args, sec_env>>
    /\ UNCHANGED <<invVars, jobVars, imgVars, llbVars, idxVars, resVars>>

\* main.rs:659-671: the entries of the JSON object are pushed in the
\* iteration order of the HashMap they were read into.
JsonSecrets ==
    /\ sec_pc = "json"
    /\ LET json == sec_in.secrets_json
       IN IF json.kind = "none"
          THEN /\ sec_pc' = "spawn"
               /\ UNCHANGED <<all_secrets, exit, err>>
          ELSE IF json.kind \in {"missing", "malformed"}
          THEN SecretsFail(SecretsJsonError)
          ELSE /\ \E order \in Perms(DOMAIN json.map) :
                    all_secrets' =
                        all_secrets \o [i \in 1..Len(order) |-> <<order[i], json.map[order[i]]>>]
               /\ sec_pc' = "spawn"
               /\ UNCHANGED <<exit, err>>
    /\ UNCHANGED <<pc, git_event, base_ref, on, depends_on, on_fail, jobs, graph, lvl, k,
                   task, read_err, exit_code>>
    /\ UNCHANGED <<sec_in, sec_args, sec_env>>
    /\ UNCHANGED <<invVars, jobVars, imgVars, llbVars, idxVars, resVars>>

\* main.rs:715-717: one `--secret id={key}` per pair.
RECURSIVE SecretArgs(_, _)
SecretArgs(pairs, i) ==
    IF i > Len(pairs) THEN <<>>
    ELSE <<"--secret", <<"id=", pairs[i][1]>>>> \o SecretArgs(pairs, i + 1)

\* envs with a slip: a name that is already set keeps its value.
RECURSIVE envs_KeepsFirst(_, _, _)
envs_KeepsFirst(env, pairs, i) ==
    IF i > Len(pairs) THEN env
    ELSE envs_KeepsFirst([n \in DOMAIN env \cup {pairs[i][1]} |->
                            IF n \in DOMAIN env THEN env[n] ELSE pairs[i][2]],
                         pairs, i + 1)

\* main.rs:720: Command::envs inserts the pairs one by one into the map of
\* the variables to set; an insert replaces the value of a name already there.
RECURSIVE envs(_, _, _)
envs(env, pairs, i) ==
    IF i > Len(pairs) THEN env
    ELSE envs([n \in DOMAIN env \cup {pairs[i][1]} |->
                  IF n = pairs[i][1] THEN pairs[i][2] ELSE env[n]],
              pairs, i + 1)

\* main.rs:690, 696-724: a job's task builds the buildctl command, with
\* BUILDKIT_HOST set first and its clone of all_secrets passed to envs
\* after it, and spawns it.
SpawnWithSecrets ==
    /\ sec_pc = "spawn"
    /\ sec_args' = SecretArgs(all_secrets, 1)
    /\ sec_env' = envs([n \in {"BUILDKIT_HOST"} |-> BackendTarget(sec_in.oci_backend)],
                        all_secrets, 1)
    /\ sec_pc' = "spawned"
    /\ UNCHANGED <<sec_in, all_secrets>>
    /\ UNCHANGED runVars
    /\ UNCHANGED <<invVars, jobVars, imgVars, llbVars, idxVars, resVars>>

NextSecrets ==
    \/ ExplicitSecrets
    \/ DotenvSecrets
    \/ JsonSecrets
    \/ SpawnWithSecrets

SpecSecrets == InitSecrets /\ [][NextSecrets]_vars

\* ------------------------------------------ job.rs: the compiler of a recipe
\* Option<T>
None == [some |-> FALSE]
Some(v) == [some |-> TRUE, value |-> v]

\* Utf8PathBuf: whether the path starts at the root, and its components.
Path(abs, parts) == [abs |-> abs, parts |-> parts]

is_absolute(path) == path.abs

\* Utf8Path::join: an absolute argument replaces the base.
join(base, path) ==
    IF is_absolute(path) THEN path ELSE Path(base.abs, base.parts \o path.parts)

\* to_mount with a slip: the path is appended to the working directory even
\* when it is absolute.
to_mount_Concatenates(cache_directory, working_directory) ==
    LET path == Path(working_directory.abs,
                     working_directory.parts \o cache_directory.path.parts)
    IN [kind |-> "cache", id |-> path, dest |-> path, sharing |-> "default"]

\* job.rs:52-66, for a CacheDirectory without sharing.
to_mount(cache_directory, working_directory) ==
    LET path == IF is_absolute(cache_directory.path)
                THEN cache_directory.path
                ELSE join(working_directory, cache_directory.path)
    IN [kind |-> "cache", id |-> path, dest |-> path, sharing |-> "default"]

\* Mount::layer(output, dest, 0)
Layer(input, dest) == [kind |-> "layer", input |-> input, dest |-> dest]

\* format!("{key}={value}")
KeyValue(pair) == <<pair[1], "=", pair[2]>>

\* with_env with a slip: the step's entries come after the job-level list.
with_env_StepLast(step_env, env) ==
    env \o [i \in 1..Len(step_env) |-> KeyValue(step_env[i])]

\* job.rs:200-207: the step's entries, in the iteration order of its map,
\* chained with the job-level list.
with_env(step_env, env) ==
    [i \in 1..Len(step_env) |-> KeyValue(step_env[i])] \o env

\* [String]::join: the pieces of the joined string.
RECURSIVE JoinWith(_, _)
JoinWith(strings, sep) ==
    IF Len(strings) <= 1 THEN strings
    ELSE <<Head(strings), sep>> \o JoinWith(Tail(strings), sep)

\* ExecArgs with a slip: a shell given as an argument list gets -c like the
\* named shells.
ExecArgs_DashCForArgsShell(step, job_index, step_index) ==
    IF step.run.type = "Command"
    THEN IF ~step.shell.some \/ step.shell.value.type = "Sh"
         THEN <<"/bin/sh", "-c", step.run.command>>
         ELSE IF step.shell.value.type = "Bash"
         THEN <<"/bin/bash", "-c", step.run.command>>
         ELSE step.shell.value.args \o <<"-c", step.run.command>>
    ELSE IF step.run.type = "Args" THEN step.run.args
    ELSE <<"cicada", "step", ToString(job_index), ToString(step_index)>>

\* job.rs:127-145: the argument vector of the step's operation.
ExecArgs(step, job_index, step_index) ==
    IF step.run.type = "Command"
    THEN IF ~step.shell.some \/ step.shell.value.type = "Sh"
         THEN <<"/bin/sh", "-c", step.run.command>>
         ELSE IF step.shell.value.type = "Bash"
         THEN <<"/bin/bash", "-c", step.run.command>>
         ELSE Append(step.shell.value.args, step.run.command)
    ELSE IF step.run.type = "Args" THEN step.run.args
    ELSE <<"cicada", "step", ToString(job_index), ToString(step_index)>>

\* job.rs:116-215, for a step that mounts no secret.
to_exec(step, root_mount, parent_cache_directories, parent_working_directory, env, job_index, step_index) ==
    LET args == ExecArgs(step, job_index, step_index)
        custom_name ==
            IF step.name.some
            THEN IF step.run.type = "Command"
                 THEN <<step.name.value, " (", ToString(step_index), "): ", step.run.command>>
                 ELSE IF step.run.type = "Args"
                 THEN <<step.name.value, " (", ToString(step_index), "): ">>
                          \o JoinWith(step.run.args, " ")
                 ELSE <<step.name.value, " (", ToString(step_index), ")">>
            ELSE IF step.run.type = "Command"
                 THEN <<step.run.command>>
                 ELSE IF step.run.type = "Args"
                 THEN JoinWith(step.run.args, " ")
                 ELSE <<"Step ", ToString(step_index)>>
        working_directory ==
            IF step.working_directory.some
            THEN IF is_absolute(step.working_directory.value)
                 THEN step.working_directory.value
                 ELSE join(parent_working_directory, step.working_directory.value)
            ELSE parent_working_directory
    IN [kind |-> "exec",
        args |-> args,
        custom_name |-> custom_name,
        cwd |-> working_directory,
        mounts |->
            <<root_mount>>
                \o [i \in 1..Len(step.cache_directories) |->
                       to_mount(step.cache_directories[i], working_directory)]
                \o [i \in 1..Len(parent_cache_directories) |->
                       to_mount(parent_cache_directories[i], working_directory)]
                \o (IF step.run.type = "DenoFunction"
                    THEN <<[kind |-> "cache",
                            id |-> Path(TRUE, <<"root", ".cache", "deno">>),
                            dest |-> Path(TRUE, <<"root", ".cache", "deno">>),
                            sharing |-> "default"]>>
                    ELSE <<>>),
        env |-> with_env(step.env, env),
        ignore_cache |-> IF step.ignore_cache.some THEN step.ignore_cache.value ELSE FALSE]

\* job.rs:309-328: the two read-only layers every step gets.
ToolMounts(cicada_image) ==
    <<[kind |-> "layer_readonly", input |-> "docker.io/denoland/deno:bin",
       dest |-> "/usr/local/bin/deno", selector |-> "/deno"],
      [kind |-> "layer_readonly",
       input |-> IF cicada_image.some THEN cicada_image.value
                 ELSE "docker.io/cicadahq/cicada-bin",
       dest |-> "/usr/local/bin/cicada", selector |-> "/cicada"]>>

\* FoldSteps with a slip: every step is rooted at the copy operation.
RECURSIVE FoldSteps_AllOnCopy(_, _, _, _, _, _, _)
FoldSteps_AllOnCopy(job, working_directory, env, job_index, cicada_image, prev_step, i) ==
    IF i > Len(job.steps) THEN prev_step
    ELSE LET copy == IF i = 1 THEN prev_step ELSE prev_step.mounts[1].input
             exec == to_exec(job.steps[i], Layer(copy, "/"), job.cache_directories,
                             working_directory, env, job_index, i - 1)
         IN FoldSteps_AllOnCopy(job, working_directory, env, job_index, cicada_image,
                                [exec EXCEPT !.mounts = @ \o ToolMounts(cicada_image)],
                                i + 1)

\* job.rs:355-374: the loop over the steps, from step i on; prev_step is
\* the operation the next step is rooted at. enumerate() counts from 0.
RECURSIVE FoldSteps(_, _, _, _, _, _, _)
FoldSteps(job, working_directory, env, job_index, cicada_image, prev_step, i) ==
    IF i > Len(job.steps) THEN prev_step
    ELSE LET exec == to_exec(job.steps[i], Layer(prev_step, "/"), job.cache_directories,
                             working_directory, env, job_index, i - 1)
         IN FoldSteps(job, working_directory, env, job_index, cicada_image,
                      [exec EXCEPT !.mounts = @ \o ToolMounts(cicada_image)],
                      i + 1)

\* The working directory of /app that a job without one gets.
App == Path(TRUE, <<"app">>)

\* job.rs:262-379. `excludes` is the list read from the first ignore file
\* of the project directory. A job without a name makes the unwrap of
\* job.rs:308 panic. The bytes of the Definition are taken as the graph
\* they encode.
to_llb(jr, module_name, excludes, github, job_index, cicada_image) ==
    IF ~jr.job.name.some THEN [ok |-> FALSE, definition |-> <<>>]
    ELSE
    LET working_directory ==
            IF jr.job.working_directory.some THEN jr.job.working_directory.value ELSE App
        job_image == [kind |-> "image", reference |-> jr.image_reference,
                  custom_name |-> jr.job.name.value]
        local == [kind |-> "local", name |-> "local", excludes |-> excludes]
        local_cp ==
            [kind |-> "exec",
             args |-> <<"/bin/sh", "-c",
                        <<"mkdir -p ", working_directory, " && cp -r /local/. ",
                          working_directory>>>>,
             custom_name |-> <<"Copy local files">>,
             cwd |-> Path(TRUE, <<>>),
             mounts |-> <<Layer(job_image, "/"),
                          [kind |-> "layer_readonly", input |-> local, dest |-> "/local"]>>,
             env |-> <<>>,
             ignore_cache |-> FALSE]
        env ==
            jr.image_info.config.env
                \o <<<<"CI", "=", "1">>,
                     <<"CICADA_PIPELINE_FILE", "=",
                       <<working_directory, "/.cicada/", module_name>>>>,
                     <<"CICADA_JOB", "=", "1">>>>
                \o (IF github.some THEN <<<<"GITHUB_REPOSITORY", "=", github.value>>>> ELSE <<>>)
                \o [i \in 1..Len(jr.job.env) |-> KeyValue(jr.job.env[i])]
    IN [ok |-> TRUE,
        definition |-> FoldSteps(jr.job, working_directory, env, job_index, cicada_image,
                                 local_cp, 1)]

\* The directories the inputs use.
RelativeDirs == {Path(FALSE, <<"sub">>)}
AbsoluteDirs == {Path(TRUE, <<"opt">>)}
RelativeCaches == {Path(FALSE, <<"cache">>)}
AbsoluteCaches == {Path(TRUE, <<"var", "cache">>)}

\* Vec<CacheDirectory> of at most one entry.
CacheLists ==
    {<<>>} \cup {<<[path |-> path, sharing |-> None]>> :
                    path \in RelativeCaches \cup AbsoluteCaches}

\* The steps of the inputs: step i runs the command "run" followed by i.
StepsOf(n) ==
    {[i \in 1..n |->
        [run |-> [type |-> "Command", command |-> <<"run", i>>],
         name |-> None,
         cache_directories |-> f[i].cache_directories,
         ignore_cache |-> f[i].ignore_cache,
         env |-> f[i].env,
         working_directory |-> f[i].working_directory,
         shell |-> None]] :
     f \in [1..n -> [cache_directories : CacheLists,
                     ignore_cache : {None, Some(TRUE)},
                     env : {<<>>, <<<<"A", "step">>>>},
                     working_directory :
                         {None} \cup {Some(d) : d \in RelativeDirs \cup AbsoluteDirs}]]}

\* The JobResolved values and the arguments of the inputs. The env maps are
\* given as the sequence in which they iterate.
CompileInputs ==
    [jr : [job : [name : {Some("job")},
                  steps : UNION {StepsOf(n) : n \in 0..MaxSteps},
                  env : {<<>>, <<<<"A", "job">>>>},
                  cache_directories : CacheLists,
                  working_directory : {None} \cup {Some(d) : d \in AbsoluteDirs}],
           image_info : [config : [env : {<<>>, <<<<"A", "=", "image">>>>}]],
           image_reference : {"docker.io/library/alpine:latest"}],
     module_name : {"pipeline.ts"},
     excludes : {<<"target">>},
     github : {None, Some("o/r")},
     job_index : {0},
     cicada_image : {None}]

InitCompile ==
    /\ RunOff
    /\ InvOff
    /\ JobOff
    /\ ImgOff
    /\ SecOff
    /\ IdxOff
    /\ ResOff
    /\ llb_pc = "input"
    /\ llb_in \in CompileInputs
    /\ recipe = <<>>
    /\ recipe2 = <<>>

\* A call of to_llb on the input.
Compiled ==
    to_llb(llb_in.jr, llb_in.module_name, llb_in.excludes, llb_in.github, llb_in.job_index,
           llb_in.cicada_image)

\* job.rs:262-379
Compile ==
    /\ llb_pc = "input"
    /\ recipe' = Compiled
    /\ llb_pc' = "once"
    /\ UNCHANGED <<llb_in, recipe2>>
    /\ UNCHANGED <<runVars, invVars, jobVars, imgVars, secVars, idxVars, resVars>>

\* CompileAgain with a slip: a step that sets ignore_cache gets a token of
\* its own in every call.
CompileAgain_FreshToken ==
    /\ llb_pc = "once"
    /\ \E token \in {"t1", "t2"} :
        recipe2' =
            IF Compiled.ok /\ Compiled.definition.ignore_cache
            THEN [Compiled EXCEPT !.definition.env = @ \o <<<<"CACHE_BUST", "=", token>>>>]
            ELSE Compiled
    /\ llb_pc' = "twice"
    /\ UNCHANGED <<llb_in, recipe>>
    /\ UNCHANGED <<runVars, invVars, jobVars, imgVars, secVars, idxVars, resVars>>

\* job.rs:262-379, called once more on the same JobResolved with the same
\* arguments.
CompileAgain ==
    /\ llb_pc = "once"
    /\ recipe2' = Compiled
    /\ llb_pc' = "twice"
    /\ UNCHANGED <<llb_in, recipe>>
    /\ UNCHANGED <<runVars, invVars, jobVars, imgVars, secVars, idxVars, resVars>>

NextCompile ==
    \/ Compile
    \/ CompileAgain

SpecCompile == InitCompile /\ [][NextCompile]_vars

\* ------------------------------------------------- one step on its own
\* to_exec on every kind of run under every kind of shell.

\* Option<Shell>.
Shells ==
    {None, Some([type |-> "Sh"]), Some([type |-> "Bash"]),
     Some([type |-> "Args", args |-> <<"zsh", "-e", "-c">>]),
     Some([type |-> "Args", args |-> <<"python">>]),
     Some([type |-> "Args", args |-> <<>>])}

\* StepRun.
StepRuns ==
    {[type |-> "Command", command |-> "make test"],
     [type |-> "Args", args |-> <<"make", "test">>],
     [type |-> "Args", args |-> <<>>],
     [type |-> "DenoFunction"]}

\* The steps and the two indexes to_exec is called with.
ExecInputs ==
    [step : [run : StepRuns,
             name : {None, Some("build")},
             cache_directories : {<<>>},
             ignore_cache : {None},
             env : {<<>>},
             working_directory : {None},
             shell : Shells],
     job_index : 0..(NumJobs - 1),
     step_index : 0..(MaxSteps - 1)]

InitExec ==
    /\ RunOff
    /\ InvOff
    /\ JobOff
    /\ ImgOff
    /\ SecOff
    /\ IdxOff
    /\ ResOff
    /\ llb_pc = "step"
    /\ llb_in \in ExecInputs
    /\ recipe = <<>>
    /\ recipe2 = <<>>

\* job.rs:358-366: to_llb calls to_exec for the step.
StepToExec ==
    /\ llb_pc = "step"
    /\ recipe' = to_exec(llb_in.step, Layer("previous", "/"), <<>>, App, <<>>,
                         llb_in.job_index, llb_in.step_index)
    /\ llb_pc' = "exec"
    /\ UNCHANGED <<llb_in, recipe2>>
    /\ UNCHANGED <<runVars, invVars, jobVars, imgVars, secVars, idxVars, resVars>>

NextExec == StepToExec

SpecExec == InitExec /\ [][NextExec]_vars

\* --------------------------------------------------- results of a level
\* main.rs:807-847 on its own: the tasks of one level end, try_join_all
\* yields their results in the order of the level, the loop handles them one
\* by one.

\* What a task's future can yield to the loop: Ok with a successful or a
\* failed exit status, or Err.
TaskResults == {"success", "failure", "error"}

\* The possible result lists of a level, none of the tasks ended yet.
LevelResultLists ==
    UNION {[1..n -> [result : TaskResults, on_fail : OnFails, done : {FALSE}]] : n \in 1..NumJobs}

InitResults ==
    /\ RunOff
    /\ InvOff
    /\ JobOff
    /\ ImgOff
    /\ SecOff
    /\ LlbOff
    /\ IdxOff
    /\ res_pc = "await"
    /\ results \in LevelResultLists
    /\ res_i = 0
    /\ res_log = <<>>
    /\ res_exit_code = 0
    /\ res_exit = NoExit

\* main.rs:684-806: the async block of one job of the level returns.
TaskEnds ==
    /\ res_pc = "await"
    /\ \E i \in 1..Len(results) :
        /\ ~results[i].done
        /\ results' = [results EXCEPT ![i].done = TRUE]
    /\ UNCHANGED <<res_pc, res_i, res_log, res_exit_code, res_exit>>
    /\ UNCHANGED <<runVars, invVars, jobVars, imgVars, secVars, llbVars, idxVars>>

\* main.rs:809-813: try_join_all is ready with Ok(results) once every
\* future of the level is; the loop starts at the first result.
ResultsReady ==
    /\ res_pc = "await"
    /\ \A i \in 1..Len(results) : results[i].done
    /\ res_pc' = "loop"
    /\ res_i' = 1
    /\ UNCHANGED <<results, res_log, res_exit_code, res_exit>>
    /\ UNCHANGED <<runVars, invVars, jobVars, imgVars, secVars, llbVars, idxVars>>

\* main.rs:814-833: the arm of the match a result takes: the level it is
\* logged at and whether the arm sets exit_code and breaks.
MatchArm(result) ==
    IF result.result = "error" THEN [level |-> "error", break |-> TRUE]
    ELSE IF result.result = "failure" /\ result.on_fail = "Ignore"
    THEN [level |-> "warn", break |-> FALSE]
    ELSE IF result.result = "failure"
    THEN [level |-> "error", break |-> TRUE]
    ELSE [level |-> "info", break |-> FALSE]

\* HandleResult with a slip: the failing arms set exit_code and the loop
\* goes on.
HandleResult_GoesOn ==
    /\ res_pc = "loop"
    /\ res_i <= Len(results)
    /\ res_log' = Append(res_log, <<res_i, MatchArm(results[res_i]).level>>)
    /\ res_exit_code' = IF MatchArm(results[res_i]).break THEN 1 ELSE res_exit_code
    /\ res_i' = res_i + 1
    /\ UNCHANGED <<res_pc, results, res_exit>>
    /\ UNCHANGED <<runVars, invVars, jobVars, imgVars, secVars, llbVars, idxVars>>

\* main.rs:813-834: one turn of `for result in results`.
HandleResult ==
    /\ res_pc = "loop"
    /\ res_i <= Len(results)
    /\ res_log' = Append(res_log, <<res_i, MatchArm(results[res_i]).level>>)
    /\ IF MatchArm(results[res_i]).break
       THEN /\ res_exit_code' = 1
            /\ res_pc' = "after"
            /\ UNCHANGED res_i
       ELSE /\ res_i' = res_i + 1
            /\ UNCHANGED <<res_pc, res_exit_code>>
    /\ UNCHANGED <<results, res_exit>>
    /\ UNCHANGED <<runVars, invVars, jobVars, imgVars, secVars, llbVars, idxVars>>

\* main.rs:813, 838: the results are used up and the level was the last.
ResultsUsedUp ==
    /\ res_pc = "loop"
    /\ res_i > Len(results)
    /\ res_pc' = "after"
    /\ UNCHANGED <<results, res_i, res_log, res_exit_code, res_exit>>
    /\ UNCHANGED <<runVars, invVars, jobVars, imgVars, secVars, llbVars, idxVars>>

\* main.rs:845-847: the process exits with exit_code when it is not 0, and
\* execute returns Ok(()) otherwise.
ResultsExit ==
    /\ res_pc = "after"
    /\ res_exit' = res_exit_code
    /\ res_pc' = "done"
    /\ UNCHANGED <<results, res_i, res_log, res_exit_code>>
    /\ UNCHANGED <<runVars, invVars, jobVars, imgVars, secVars, llbVars, idxVars>>

NextResults ==
    \/ TaskEnds
    \/ ResultsReady
    \/ HandleResult
    \/ ResultsUsedUp
    \/ ResultsExit

SpecResults == InitResults /\ [][NextResults]_vars

\* ------------------------------------------------------- the job index
\* main.rs:624-628, 673-682, 726-732 on their own: the populated jobs get
\* their index, are sorted into levels and are compiled with that index.

\* The uuids of the jobs of a document: none is a position in the list.
Uuids == {10 + i : i \in 1..NumJobs}

\* The two kinds of step of the documents: a command and a generated
\* function.
IndexStep(type, i) ==
    [run |-> IF type = "Command" THEN [type |-> "Command", command |-> <<"run", i>>]
             ELSE [type |-> "DenoFunction"],
     name |-> None,
     cache_directories |-> <<>>,
     ignore_cache |-> None,
     env |-> <<>>,
     working_directory |-> None,
     shell |-> None]

\* The step lists of the documents: MaxSteps steps, a generated function
\* among them.
IndexSteps ==
    {[i \in 1..MaxSteps |-> IndexStep(f[i], i)] :
        f \in {g \in [1..MaxSteps -> {"Command", "DenoFunction"}] :
                    g[MaxSteps] = "DenoFunction"}}

\* The populated jobs of a document, in the order of its job list: every
\* job has a uuid of its own and depends on at most one job of the document.
IndexDocuments ==
    UNION {{[i \in 1..n |->
                [job |-> [uuid |-> u[i],
                          name |-> Some("job"),
                          depends_on |-> d[i],
                          steps |-> st[i],
                          env |-> <<>>,
                          cache_directories |-> <<>>,
                          working_directory |-> None],
                 image_info |-> [config |-> [env |-> <<>>]],
                 image_reference |-> "docker.io/library/alpine:latest"]] :
            u \in {v \in [1..n -> Uuids] : \A a, b \in 1..n : a # b => v[a] # v[b]},
            d \in [1..n -> {{}} \cup {{v} : v \in Uuids}],
            st \in [1..n -> IndexSteps]} : n \in 1..NumJobs}

InitIndex ==
    /\ RunOff
    /\ InvOff
    /\ JobOff
    /\ ImgOff
    /\ SecOff
    /\ LlbOff
    /\ ResOff
    /\ idx_pc = "collect"
    /\ idx_doc \in {doc \in IndexDocuments :
                        \A i \in 1..Len(doc) :
                            doc[i].job.depends_on \subseteq {doc[j].job.uuid : j \in 1..Len(doc)}}
    /\ idx_jobs = <<>>
    /\ idx_graph = <<>>
    /\ idx_compiled = <<>>

\* main.rs:624-628: the map from uuid to (index, job), the index from
\* enumerate over populated_jobs.
CollectIndex ==
    /\ idx_pc = "collect"
    /\ idx_jobs' = [uuid \in {idx_doc[i].job.uuid : i \in 1..Len(idx_doc)} |->
                       LET i == CHOOSE n \in 1..Len(idx_doc) : idx_doc[n].job.uuid = uuid
                       IN [index |-> i - 1, job |-> idx_doc[i]]]
    /\ idx_pc' = "schedule"
    /\ UNCHANGED <<idx_doc, idx_graph, idx_compiled>>
    /\ UNCHANGED <<runVars, invVars, jobVars, imgVars, secVars, llbVars, resVars>>

\* main.rs:673-677: the levels, from the values of the map in its iteration
\* order.
ScheduleIndex ==
    /\ idx_pc = "schedule"
    /\ \E order1 \in Perms(DOMAIN idx_jobs), order2 \in Perms(DOMAIN idx_jobs) :
        LET nodes == [i \in 1..Len(order1) |->
                         Node(order1[i], SortedSeq(idx_jobs[order1[i]].job.job.depends_on))]
            r == topological_sort(invert_graph(nodes, order2))
        IN IF r.ok /\ r.levels # <<>>
           THEN /\ idx_graph' = r.levels
                /\ idx_pc' = "dispatch"
           ELSE /\ idx_pc' = "exited"
                /\ UNCHANGED idx_graph
    /\ UNCHANGED <<idx_doc, idx_jobs, idx_compiled>>
    /\ UNCHANGED <<runVars, invVars, jobVars, imgVars, secVars, llbVars, resVars>>

\* The levels without their first job.
RestOf(levels) ==
    IF Len(levels[1]) = 1 THEN Tail(levels) ELSE <<Tail(levels[1])>> \o Tail(levels)

\* DispatchIndex with a slip: the index is the place of the job in the
\* order of dispatch.
DispatchIndex_DispatchOrder ==
    /\ idx_pc = "dispatch"
    /\ LET uuid == idx_graph[1][1]
       IN IF uuid \notin DOMAIN idx_jobs
          THEN /\ idx_pc' = "exited"
               /\ UNCHANGED <<idx_jobs, idx_graph, idx_compiled>>
          ELSE /\ idx_jobs' = [u \in DOMAIN idx_jobs \ {uuid} |-> idx_jobs[u]]
               /\ idx_compiled' =
                    Append(idx_compiled,
                           [uuid |-> uuid,
                            recipe |-> to_llb(idx_jobs[uuid].job, "pipeline.ts", <<>>, None,
                                              Len(idx_compiled), None)])
               /\ idx_graph' = RestOf(idx_graph)
               /\ idx_pc' = IF RestOf(idx_graph) = <<>> THEN "done" ELSE "dispatch"
    /\ UNCHANGED idx_doc
    /\ UNCHANGED <<runVars, invVars, jobVars, imgVars, secVars, llbVars, resVars>>

\* main.rs:680-682, 726-732: the next job of the levels is taken out of the
\* map with its index and compiled with it; jobs.remove(&job).unwrap()
\* panics when the uuid is gone.
DispatchIndex ==
    /\ idx_pc = "dispatch"
    /\ LET uuid == idx_graph[1][1]
       IN IF uuid \notin DOMAIN idx_jobs
          THEN /\ idx_pc' = "exited"
               /\ UNCHANGED <<idx_jobs, idx_graph, idx_compiled>>
          ELSE /\ idx_jobs' = [u \in DOMAIN idx_jobs \ {uuid} |-> idx_jobs[u]]
               /\ idx_compiled' =
                    Append(idx_compiled,
                           [uuid |-> uuid,
                            recipe |-> to_llb(idx_jobs[uuid].job, "pipeline.ts", <<>>, None,
                                              idx_jobs[uuid].index, None)])
               /\ idx_graph' = RestOf(idx_graph)
               /\ idx_pc' = IF RestOf(idx_graph) = <<>> THEN "done" ELSE "dispatch"
    /\ UNCHANGED idx_doc
    /\ UNCHANGED <<runVars, invVars, jobVars, imgVars, secVars, llbVars, resVars>>

NextIndex ==
    \/ CollectIndex
    \/ ScheduleIndex
    \/ DispatchIndex

SpecIndex == InitIndex /\ [][NextIndex]_vars

\* ------------------------------------------------- jobs without a name
\* The run with the names of its jobs: what a task can yield depends on
\* whether to_llb returns.

\* The JobResolved of a job with the name, nothing else declared.
NamedJob(name) ==
    [job |-> [name |-> name, steps |-> <<>>, env |-> <<>>, cache_directories |-> <<>>,
              working_directory |-> None],
     image_info |-> [config |-> [env |-> <<>>]],
     image_reference |-> "docker.io/library/alpine:latest"]

\* TaskOutcomes with a slip: the task does not need the recipe.
TaskOutcomes_NoCompile(jr, job_index) == {"io_err", "panicked", "exit0", "exit1"}

\* main.rs:726-805: what the task of a spawned subprocess can yield: a panic
\* when to_llb panics, else what FinishJob says.
TaskOutcomes(jr, job_index) ==
    IF ~to_llb(jr, "pipeline.ts", <<>>, None, job_index, None).ok
    THEN {"panicked"}
    ELSE {"io_err", "panicked", "exit0", "exit1"}

\* main.rs:498-628, as PopulateOk, with the names of the jobs; every job of
\* these documents depends on at most one job.
PopulateNamed ==
    /\ pc = "populate"
    /\ \E n \in 0..NumJobs : \E doc \in Documents(n) :
        /\ \A j \in 1..n : Cardinality(doc.depends_on[j]) <= 1
        /\ depends_on' = doc.depends_on
        /\ on_fail' = doc.on_fail
        /\ jobs' = 1..n
        /\ task' = [j \in 1..n |-> "none"]
        /\ \E names \in [1..n -> {None, Some("job")}] : idx_doc' = names
    /\ pc' = "schedule"
    /\ UNCHANGED <<exit, err, git_event, base_ref, on, graph, lvl, k, read_err, exit_code>>
    /\ UNCHANGED <<invVars, jobVars, imgVars, secVars, llbVars, resVars>>
    /\ UNCHANGED <<idx_pc, idx_jobs, idx_graph, idx_compiled>>

\* main.rs:726-805, as FinishJob, for a job with or without a name.
FinishNamedJob(job) ==
    /\ pc \in {"dispatch", "join"}
    /\ job \in DOMAIN task
    /\ task[job] = "running"
    /\ \E r \in TaskOutcomes(NamedJob(idx_doc[job]), job - 1) :
        task' = [task EXCEPT ![job] = r]
    /\ \E failed_read \in BOOLEAN :
        /\ failed_read => Cardinality(read_err) < MaxReadErrors
        /\ read_err' = IF failed_read THEN read_err \cup {job} ELSE read_err
    /\ UNCHANGED <<pc, exit, err, git_event, base_ref, on, depends_on, on_fail, jobs,
                   graph, lvl, k, exit_code>>
    /\ UNCHANGED auxVars

NextNamed ==
    \/ CheckTrigger
    \/ PopulateNamed
    \/ PopulateErr
    \/ Schedule
    \/ Dispatch
    \/ \E job \in Jobs : SpawnSubprocess(job)
    \/ \E job \in Jobs : FinishNamedJob(job)
    \/ LevelResults
    \/ JoinError

SpecNamed == Init /\ [][NextNamed]_vars

\* ------------------------------------------------------------ vocabulary
\* The jobs of the pipeline document.
PipelineJobs == DOMAIN depends_on

\* The 1-based index of the level of `graph` that holds job (0: none).
LevelOf(job) ==
    IF \E l \in 1..Len(graph) : job \in Range(graph[l])
    THEN CHOOSE l \in 1..Len(graph) : job \in Range(graph[l])
    ELSE 0

\* How often job occurs in the levels of `graph`.
Occurrences(job) ==
    Cardinality({<<l, i>> \in (1..Len(graph)) \X (1..NumJobs) :
                    i <= Len(graph[l]) /\ graph[l][i] = job})

\* The job's buildctl subprocess was spawned.
Started(job) == task[job] \in {"running", "io_err", "panicked", "exit0", "exit1"}

\* The job's task has ended, with whatever outcome.
Reported(job) == task[job] \in Terminal

\* Everything job depends on, directly or not, within n further steps.
RECURSIVE Ancestors(_, _)
Ancestors(S, n) ==
    IF n = 0 THEN S
    ELSE Ancestors(S \cup UNION {depends_on[x] : x \in S}, n - 1)

HasCycle == \E j \in PipelineJobs : j \in Ancestors(depends_on[j], NumJobs)

\* Commands::execute has got past `topological_sort(..)?` or failed in it.
SortRan ==
    /\ pc \in {"dispatch", "join", "exited"}
    /\ exit # 2
    /\ err \notin {TriggerFnError, PopulateError}

\* C1: a job's subprocess is never spawned before every job of its
\* depends_on has reported a terminal outcome in an earlier level.
C1_DependenciesReportedFirst ==
    \A a \in PipelineJobs :
        Started(a) =>
            \A b \in depends_on[a] : Reported(b) /\ LevelOf(b) < LevelOf(a)

\* C2: in the levels returned by topological_sort(invert_graph(nodes)), for
\* every edge `a depends_on b` the level of b is strictly before the level
\* of a.
C2_DependencyInEarlierLevel ==
    graph # <<>> =>
        \A a \in PipelineJobs : \A b \in depends_on[a] : LevelOf(b) < LevelOf(a)

\* C3: for an acyclic graph topological_sort(invert_graph(nodes)) succeeds
\* and every node id is in exactly one level, exactly once.
C3_EveryIdExactlyOnce ==
    (SortRan /\ ~HasCycle) =>
        /\ err # CycleError
        /\ \A l \in 1..Len(graph) : Range(graph[l]) \subseteq PipelineJobs
        /\ \A j \in PipelineJobs : Occurrences(j) = 1

C3_Witness ==
    /\ SortRan
    /\ ~HasCycle
    /\ Len(graph) >= 2
    /\ \E l \in 1..Len(graph) : Len(graph[l]) >= 2

\* The job exited with a failing status under the Stop policy (or none).
StopFailed(job) == task[job] = "exit1" /\ on_fail[job] \in {"Stop", "None"}

\* The job exited with a failing status under the Ignore policy.
IgnoredFailure(job) == task[job] = "exit1" /\ on_fail[job] = "Ignore"

\* C4: once a job whose on_fail is Stop or unset has exited with a non-zero
\* status, no job of a later level is ever started, and the run ends with
\* exit code 1.
C4_StopFailureAbortsRun ==
    \A j \in PipelineJobs :
        StopFailed(j) =>
            /\ \A i \in PipelineJobs :
                LevelOf(i) > LevelOf(j) => task[i] = "none" /\ i \in jobs
            /\ pc = "exited" => exit = 1

C4_Witness ==
    /\ pc = "exited"
    /\ exit = 1
    /\ exit_code = 1
    /\ \E j, i \in PipelineJobs :
        /\ StopFailed(j)
        /\ on_fail[j] = "None"
        /\ LevelOf(i) > LevelOf(j)
        /\ task[i] = "none"

\* C5: failures under Ignore alone never make the run fail nor keep a job
\* from starting: a run in which every job that ended either succeeded or
\* failed under Ignore ends with exit code 0 after every job, the dependents
\* of the failed ones included, was started and has reported.
C5_IgnoredFailureIsHarmless ==
    (/\ pc = "exited"
     /\ SortRan
     /\ err = NoError
     /\ \A j \in PipelineJobs :
            task[j] \in {"none", "created", "running", "exit0"} \/ IgnoredFailure(j))
        =>
            /\ exit = 0
            /\ exit_code = 0
            /\ jobs = {}
            /\ \A j \in PipelineJobs : Started(j) /\ Reported(j)

C5_Witness ==
    /\ pc = "exited"
    /\ exit = 0
    /\ \E j, i, s \in PipelineJobs :
        /\ IgnoredFailure(j)
        /\ j \in depends_on[i]
        /\ LevelOf(i) > LevelOf(j)
        /\ task[i] = "exit0"
        /\ s # j
        /\ LevelOf(s) = LevelOf(j)
        /\ Started(s)

\* C6: no job of level N+1 is started (its task is not even created) until
\* every job of level N has reported a terminal outcome.
C6_LevelBarrier ==
    \A i, j \in PipelineJobs :
        (LevelOf(i) > 0 /\ LevelOf(j) > LevelOf(i) /\ task[j] # "none") => Reported(i)

C6_Witness ==
    \E i, j \in PipelineJobs :
        /\ LevelOf(i) > 0
        /\ LevelOf(j) = LevelOf(i) + 1
        /\ task[j] = "running"
        /\ task[i] = "exit1"

\* C7: for a dependency graph with a cycle (a self-dependency included) the
\* run reports the cyclical-dependency error, spawns no job subprocess and
\* ends with exit code 1.
C7_CycleIsFatal ==
    (SortRan /\ HasCycle) =>
        /\ pc = "exited"
        /\ err = CycleError
        /\ exit = 1
        /\ jobs = PipelineJobs
        /\ \A j \in PipelineJobs : task[j] = "none"

C7_Witness ==
    /\ pc = "exited"
    /\ err = CycleError
    /\ exit = 1
    /\ \E j, i \in PipelineJobs :
        /\ depends_on[j] = {}
        /\ i # j
        /\ i \in Ancestors(depends_on[i], NumJobs)
        /\ i \notin depends_on[i]

\* A reader of the job's stdout or stderr failed on a line, the subprocess
\* could not be spawned, or writing the recipe or waiting for the exit failed.
InfrastructureError(job) ==
    task[job] \in {"spawn_err", "io_err"} \/ job \in read_err

\* C9: an infrastructure error in a job's execution (spawn failure, failure
\* writing or closing the recipe, failure of a line read on stdout or
\* stderr, failure waiting for the exit) is fatal whatever the on_fail
\* policy: no later level is started and the run ends with exit code 1.
C9_InfrastructureErrorIsFatal ==
    \A j \in PipelineJobs :
        InfrastructureError(j) =>
            /\ \A i \in PipelineJobs : LevelOf(i) > LevelOf(j) => task[i] = "none"
            /\ pc = "exited" => exit = 1

\* The pipeline was skipped by the branch filter of its trigger.
TriggerMismatch ==
    /\ git_event \in {"push", "pull_request"}
    /\ base_ref \in Branches
    /\ on.type = "Options"
    /\ LET filter == IF git_event = "push" THEN on.push ELSE on.pull_request
       IN filter.kind = "Branches" /\ base_ref \notin filter.refs

\* The branch filter of the trigger lets the base ref pass.
TriggerMatch ==
    /\ git_event \in {"push", "pull_request"}
    /\ base_ref \in Branches
    /\ on.type = "Options"
    /\ LET filter == IF git_event = "push" THEN on.push ELSE on.pull_request
       IN filter.kind = "Branches" /\ base_ref \in filter.refs

\* Every level of the sorted graph ran to its end.
AllLevelsCompleted ==
    /\ SortRan
    /\ err = NoError
    /\ \A j \in PipelineJobs : Reported(j) /\ task[j] # "panicked"

\* C8: the exit code of Run is 0 exactly when every level completed with no
\* Stop-policy failure and no infrastructure error; 1 when a Stop-policy job
\* failed, an infrastructure error occurred or a cycle was detected; 2
\* exactly when the pipeline was skipped for a trigger mismatch.
C8_ExitCodes ==
    pc = "exited" =>
        /\ exit = 0 <=>
            /\ AllLevelsCompleted
            /\ \A j \in PipelineJobs : ~StopFailed(j) /\ ~InfrastructureError(j)
        /\ (\/ \E j \in PipelineJobs : StopFailed(j) \/ InfrastructureError(j)
            \/ err \in {PopulateError, JoinErr}
            \/ SortRan /\ HasCycle) => exit = 1
        /\ exit = 2 <=> TriggerMismatch

\* C10: the pending map only loses entries during a run, one id at a time
\* and each id once (a second removal would panic), the removal comes before
\* the job's task exists and so before its subprocess is spawned, and a job
\* that has a task is no longer in the map.
C10_RemovedOnceBeforeSpawn ==
    [][pc \notin {"trigger", "populate"} =>
        /\ jobs' \subseteq jobs
        /\ Cardinality(jobs \ jobs') <= 1
        /\ exit' # 101
        /\ \A j \in PipelineJobs :
            /\ j \in jobs \ jobs' => task[j] = "none" /\ task'[j] = "created"
            /\ task'[j] # "none" => j \notin jobs'
            /\ (task[j] = "none" /\ task'[j] # "none") => j \in jobs \ jobs']_vars

C10_Witness ==
    \E j, i \in PipelineJobs :
        /\ j \notin jobs
        /\ task[j] = "running"
        /\ i \in jobs
        /\ LevelOf(i) = LevelOf(j)

\* The edges of a graph as pairs <<from, to>>.
EdgeSet(g) ==
    UNION {{<<g[i].id, g[i].edges[e]>> : e \in DOMAIN g[i].edges} : i \in DOMAIN g}

\* Every edge of g names a node of g.
Closed(g) == \A p \in EdgeSet(g) : p[2] \in Ids(g)

\* C19: invert_graph returns exactly the node ids of its input, each once,
\* and exactly the edges b -> a for the input edges a -> b between nodes of
\* the graph.
C19_InvertFlipsEdges ==
    inv_pc \in {"once", "twice"} =>
        /\ Ids(inv_out) = Ids(inv_in)
        /\ Len(inv_out) = Cardinality(Ids(inv_in))
        /\ EdgeSet(inv_out) =
            {<<p[2], p[1]>> : p \in {q \in EdgeSet(inv_in) : q[2] \in Ids(inv_in)}}

C19_Witness ==
    /\ inv_pc = "once"
    /\ Len(inv_in) = MaxNodes
    /\ \E i \in DOMAIN inv_out : inv_out[i].edges = <<>>
    /\ \E p \in EdgeSet(inv_in) : p[2] \notin Ids(inv_in)
    /\ \E p \in EdgeSet(inv_in) : p[2] \in Ids(inv_in) /\ p[1] # p[2]

\* C20 as claimed: for every input graph, inverting twice gives the id set
\* and the edge set of the input.
C20_DoubleInvertRestores ==
    inv_pc = "twice" =>
        /\ Ids(inv_out2) = Ids(inv_in)
        /\ EdgeSet(inv_out2) = EdgeSet(inv_in)

\* C20 as amended: for every input graph whose edges name only nodes of the
\* graph, inverting twice gives the id set and the edge set of the input,
\* whatever the order of the nodes and of the edges.
C20_DoubleInvertRestoresClosed ==
    (inv_pc = "twice" /\ Closed(inv_in)) =>
        /\ Ids(inv_out2) = Ids(inv_in)
        /\ EdgeSet(inv_out2) = EdgeSet(inv_in)

C20_Witness ==
    /\ inv_pc = "twice"
    /\ Closed(inv_in)
    /\ Len(inv_in) = MaxNodes
    /\ \E p \in EdgeSet(inv_in) : p[1] = p[2]
    /\ \E p \in EdgeSet(inv_in) : p[1] # p[2]
    /\ inv_out2 # inv_in

\* C18: with a git event and a base ref in the environment and a branch list
\* declared for that event type, a base ref outside the list ends the run with
\* exit code 2 with nothing populated (no image pulled) and no job started,
\* and nothing happens afterwards; a base ref in the list lets the run go on
\* to the population of the jobs.
C18_BranchFilter ==
    [][/\ (pc = "trigger" /\ TriggerMismatch) =>
            /\ pc' = "exited"
            /\ exit' = 2
            /\ depends_on' = NoJobs
            /\ jobs' = {}
            /\ graph' = <<>>
            /\ task' = NoJobs
       /\ (pc = "trigger" /\ TriggerMatch) =>
            /\ pc' = "populate"
            /\ exit' = NoExit
       /\ ~(pc = "exited" /\ exit = 2)]_vars

C18_Witness ==
    /\ pc = "exited"
    /\ exit = 2
    /\ TriggerMismatch
    /\ git_event = "pull_request"
    /\ on.push.kind = "Branches"
    /\ base_ref \in on.push.refs

\* C13: whenever the engine has left a level (it is at a later level, or the
\* run has been aborted or has finished), no job task of that level is still
\* running.
C13_NoTaskOutlivesLevel ==
    \A job \in DOMAIN task :
        (LevelOf(job) # 0 /\ (pc = "exited" \/ LevelOf(job) < lvl)) =>
            task[job] \notin {"created", "running"}

\* The task has returned Ok((long_name, status, job)).
Outcome == report \in {"exit0", "exit1"}

\* C11: a job's task reports its outcome only after both of its reader tasks
\* have read their stream to its end and have been joined.
C11_ReportAfterReadersDrained ==
    Outcome => \A s \in Streams : reader[s] = "eof" /\ consumed[s] = produced[s]

\* C12: the steps of a job come in this order: removal from the pending map,
\* spawn of the subprocess, complete write of the recipe, close of the input,
\* reading of stdout and stderr (no line is consumed while the input is not
\* closed), collection of the exit status once both readers have ended,
\* report of the collected status.
C12_StepOrder ==
    /\ buildctl_child # "none" => ~in_map
    /\ stdin.sent > 0 => buildctl_child # "none"
    /\ stdin.state = "shutdown" => stdin.sent = RecipeLen
    /\ \A s \in Streams :
        (reader[s] # "none" \/ consumed[s] > 0) => stdin.state = "shutdown"
    /\ status # "none" =>
        /\ \A s \in Streams : ReaderEnded(s)
        /\ buildctl_child = "exited"
    /\ Outcome => report = status

C12_Witness ==
    /\ Outcome
    /\ \A s \in Streams : consumed[s] = MaxLines /\ reader[s] = "eof"

\* The canonical reference of a declared image: the full repository, the
\* tag, which is latest when neither tag nor digest is given, and the digest.
Canonical(img) ==
    [repository |-> IF img.name = "alpine" THEN "docker.io/library/alpine" ELSE img.name,
     tag |-> IF img.tag = "" /\ img.digest = "" THEN "latest" ELSE img.tag,
     digest |-> img.digest]

\* C14: during the image loop no canonical reference is pulled or inspected
\* twice, and every resolved job carries the info of the one inspect of its
\* own canonical reference: jobs with the same canonical reference carry the
\* same info, and no job carries the info of another reference's entry.
C14_ImageMemoization ==
    img_pc = "resolve" =>
        /\ \A a, b \in DOMAIN pull_log :
            a # b => Canonical(image[pull_log[a].job]) # Canonical(image[pull_log[b].job])
        /\ \A a, b \in DOMAIN inspect_log :
            a # b => Canonical(image[inspect_log[a].job]) # Canonical(image[inspect_log[b].job])
        /\ \A p \in DOMAIN populated_jobs :
            \E e \in DOMAIN inspect_log :
                /\ Canonical(image[inspect_log[e].job]) = Canonical(image[populated_jobs[p].job])
                /\ populated_jobs[p].image_info = inspect_log[e].info
                /\ populated_jobs[p].image_reference = Canonical(image[populated_jobs[p].job])

C14_Witness ==
    /\ img_pc = "resolve"
    /\ Len(populated_jobs) = NumJobs
    /\ \E a, b, c \in Jobs :
        /\ image[a] # image[b]
        /\ Canonical(image[a]) = Canonical(image[b])
        /\ image[a].tag = ""
        /\ Canonical(image[c]).repository = Canonical(image[a]).repository
        /\ Canonical(image[c]) # Canonical(image[a])
    /\ Len(pull_log) = 2
    /\ inspect_log[1].info # inspect_log[2].info

\* C15: once the image of a job could not be parsed, pulled or inspected the
\* run has failed with nothing scheduled: the job map was never built, no
\* levels were computed and no task or subprocess exists, for any job.
C15_ImageFailureBeforeScheduling ==
    img_err # "none" =>
        /\ img_pc = "failed"
        /\ pc = "exited"
        /\ exit = 1
        /\ err = PopulateError
        /\ jobs = {}
        /\ graph = <<>>
        /\ task = NoJobs

C15_Witness ==
    /\ img_err = "inspect"
    /\ Len(populated_jobs) = NumJobs - 1
    /\ pc = "exited"

\* A name of the --secret flags is absent from the process environment.
ExplicitSecretAbsent ==
    /\ sec_pc # "off"
    /\ \E i \in DOMAIN sec_in.secret : sec_in.environ[sec_in.secret[i]] = "unset"

\* C16: when a name of the --secret flags is absent from the environment,
\* the run gets no further than the lookup: it fails there with the
\* secret-not-found error and exit code 1, and no buildctl is ever spawned.
C16_AbsentSecretIsFatal ==
    ExplicitSecretAbsent =>
        /\ sec_pc \in {"explicit", "failed"}
        /\ sec_pc = "failed" => (err = SecretNotFound /\ exit = 1)
        /\ sec_args = <<>>
        /\ DOMAIN sec_env = {}

C16_Witness ==
    /\ ExplicitSecretAbsent
    /\ sec_pc = "failed"
    /\ Len(sec_in.secret) = MaxSecrets
    /\ sec_in.environ[sec_in.secret[1]] # "unset"
    /\ sec_in.secrets_json.kind = "map"

\* The pairs the three sources give, the JSON entries in the given order.
ExpectedSecrets(order) ==
    [i \in 1..Len(sec_in.secret) |-> <<sec_in.secret[i], sec_in.environ[sec_in.secret[i]]>>]
        \o (IF sec_in.no_dotenv \/ ~sec_in.dotenv_file.exists
            THEN <<>>
            ELSE LET good == SelectSeq(sec_in.dotenv_file.lines, LAMBDA l : l.ok)
                 IN [i \in 1..Len(good) |-> <<good[i].key, good[i].value>>])
        \o (IF sec_in.secrets_json.kind = "map"
            THEN [i \in 1..Len(order) |-> <<order[i], sec_in.secrets_json.map[order[i]]>>]
            ELSE <<>>)

\* C17: the aggregated list is the explicit secrets, then the dotenv
\* entries, then the JSON entries (in some order of the object), nothing
\* dropped or merged; the spawned buildctl gets one `--secret id=` per pair
\* of the list, and its environment gives every name the value of the
\* name's last pair.
C17_SecretAggregation ==
    sec_pc \in {"spawn", "spawned"} =>
        /\ \E order \in Perms(DOMAIN sec_in.secrets_json.map) :
            all_secrets = ExpectedSecrets(order)
        /\ sec_pc = "spawned" =>
            /\ Len(sec_args) = 2 * Len(all_secrets)
            /\ \A i \in DOMAIN all_secrets :
                /\ sec_args[2 * i - 1] = "--secret"
                /\ sec_args[2 * i] = <<"id=", all_secrets[i][1]>>
            /\ DOMAIN sec_env = {all_secrets[i][1] : i \in DOMAIN all_secrets} \cup {"BUILDKIT_HOST"}
            /\ \A i \in DOMAIN all_secrets :
                (\A j \in DOMAIN all_secrets : j > i => all_secrets[j][1] # all_secrets[i][1])
                    => sec_env[all_secrets[i][1]] = all_secrets[i][2]

C17_Witness ==
    /\ sec_pc = "spawned"
    /\ all_secrets = <<<<"X", "1">>, <<"BUILDKIT_HOST", "d">>, <<"X", "2">>>>
    /\ sec_env["X"] = "2"
    /\ Len(sec_args) = 6

\* The jobs that are ready before round l of a levelling that takes, in
\* every round, the jobs all of whose dependencies were taken in earlier
\* rounds.
RECURSIVE TakenBefore(_)
TakenBefore(l) ==
    IF l <= 1 THEN {}
    ELSE LET R == TakenBefore(l - 1)
         IN R \cup {j \in PipelineJobs \ R : depends_on[j] \subseteq R}

\* topological_sort has returned levels.
Levelled == pc \in {"dispatch", "join", "exited"} /\ graph # <<>>

\* C21: every level topological_sort returns holds exactly the jobs that are
\* ready at the start of its round: the jobs without dependency make the
\* first level, and a job that becomes ready while a level is drained is in
\* the next level.
C21_LevelIsReadyQueueAtRoundStart ==
    Levelled =>
        \A l \in 1..Len(graph) : Range(graph[l]) = TakenBefore(l + 1) \ TakenBefore(l)

\* The jobs form one dependency chain: `order` lists them so that the first
\* has no dependency and every other depends on the one before it.
IsChain(order) ==
    /\ Len(order) >= 1
    /\ depends_on[order[1]] = {}
    /\ \A i \in 2..Len(order) : depends_on[order[i]] = {order[i - 1]}

\* C22: a dependency chain of n jobs is levelled into n levels of one job
\* each, in the order of the chain.
C22_ChainGivesOneJobPerLevel ==
    \A order \in Perms(PipelineJobs) :
        (pc \in {"dispatch", "join", "exited"} /\ SortRan /\ IsChain(order)) =>
            /\ err # CycleError
            /\ graph = [i \in 1..Len(order) |-> <<order[i]>>]

C22_Witness ==
    /\ pc = "exited"
    /\ exit = 0
    /\ Cardinality(PipelineJobs) = NumJobs
    /\ depends_on[1] = {2}
    /\ depends_on[2] = {3}
    /\ depends_on[3] = {}
    /\ graph = <<<<3>>, <<2>>, <<1>>>>

\* C23: a non-empty set of jobs without any dependency is levelled into one
\* level that holds all of them.
C23_IndependentJobsShareOneLevel ==
    (/\ pc \in {"dispatch", "join", "exited"}
     /\ SortRan
     /\ PipelineJobs # {}
     /\ \A j \in PipelineJobs : depends_on[j] = {}) =>
        /\ Len(graph) = 1
        /\ Range(graph[1]) = PipelineJobs
        /\ Len(graph[1]) = Cardinality(PipelineJobs)

C23_Witness ==
    /\ pc = "join"
    /\ Cardinality(PipelineJobs) = NumJobs
    /\ \A j \in PipelineJobs : depends_on[j] = {}
    /\ Len(graph) = 1
    /\ graph[1] = <<2, 3, 1>>

\* The operations of a recipe from the first to the result, each the root
\* filesystem of the next.
RECURSIVE Chain(_)
Chain(op) == IF op.kind # "exec" THEN <<>> ELSE Chain(op.mounts[1].input) \o <<op>>

\* The job given to the compiler, and the operations of its recipe.
TheJob == llb_in.jr.job
RecipeOps == Chain(recipe.definition)

\* to_llb has returned a recipe.
HasRecipe == llb_pc \in {"once", "twice"} /\ recipe.ok

\* The directory a step runs in: its own when absolute, its own under the
\* job's when relative, the job's when it has none; the job's is /app when
\* the job has none.
EffectiveDir(step) ==
    LET job_dir == IF TheJob.working_directory.some
                   THEN TheJob.working_directory.value
                   ELSE [abs |-> TRUE, parts |-> <<"app">>]
    IN IF ~step.working_directory.some THEN job_dir
       ELSE IF step.working_directory.value.abs THEN step.working_directory.value
       ELSE [abs |-> job_dir.abs,
             parts |-> job_dir.parts \o step.working_directory.value.parts]

\* Where the cache directory is to be mounted for the step.
CacheTarget(cache_directory, step) ==
    IF cache_directory.path.abs THEN cache_directory.path
    ELSE [abs |-> EffectiveDir(step).abs,
          parts |-> EffectiveDir(step).parts \o cache_directory.path.parts]

\* C24: the cache mounts of every step are those of the step's cache
\* directories followed by those of the job's, each at the directory's path
\* when it is absolute and else at the step's effective working directory
\* joined with the path.
C24_CacheMountTargets ==
    HasRecipe =>
        \A i \in 1..Len(TheJob.steps) :
            LET got == SelectSeq(RecipeOps[i + 1].mounts, LAMBDA m : m.kind = "cache")
                want == TheJob.steps[i].cache_directories \o TheJob.cache_directories
            IN /\ Len(got) = Len(want)
               /\ \A m \in 1..Len(want) :
                    /\ got[m].dest = CacheTarget(want[m], TheJob.steps[i])
                    /\ got[m].id = got[m].dest

C24_Witness ==
    /\ llb_pc = "once"
    /\ recipe.ok
    /\ ~TheJob.working_directory.some
    /\ Len(TheJob.steps) = 2
    /\ TheJob.cache_directories = <<[path |-> [abs |-> FALSE, parts |-> <<"cache">>],
                                    sharing |-> None]>>
    /\ TheJob.steps[1].working_directory = Some([abs |-> FALSE, parts |-> <<"sub">>])
    /\ TheJob.steps[1].cache_directories = TheJob.cache_directories
    /\ TheJob.steps[2].working_directory = None
    /\ \E m \in DOMAIN RecipeOps[2].mounts :
        /\ RecipeOps[2].mounts[m].kind = "cache"
        /\ RecipeOps[2].mounts[m].dest = [abs |-> TRUE, parts |-> <<"app", "sub", "cache">>]
    /\ \E m \in DOMAIN RecipeOps[3].mounts :
        /\ RecipeOps[3].mounts[m].kind = "cache"
        /\ RecipeOps[3].mounts[m].dest = [abs |-> TRUE, parts |-> <<"app", "cache">>]

\* The value of the last entry of an environment list that sets the name.
LastValue(env, name) ==
    LET last == CHOOSE a \in DOMAIN env :
                    /\ env[a][1] = name
                    /\ \A b \in DOMAIN env : env[b][1] = name => b <= a
    IN env[last][3]

\* C25: the environment list of every step is the step's entries, the
\* image's entries, CI=1, the pipeline-file variable, CICADA_JOB=1, the
\* repository variable when there is one, then the job's entries; the last
\* entry of a name the job sets is the job's.
C25_StepEnvOrder ==
    HasRecipe =>
        \A i \in 1..Len(TheJob.steps) :
            LET env == RecipeOps[i + 1].env
                own == TheJob.steps[i].env
                img == llb_in.jr.image_info.config.env
                a == Len(own)
                b == a + Len(img)
                c == b + 3 + (IF llb_in.github.some THEN 1 ELSE 0)
            IN /\ Len(env) = c + Len(TheJob.env)
               /\ \A n \in 1..Len(own) : env[n] = <<own[n][1], "=", own[n][2]>>
               /\ \A n \in 1..Len(img) : env[a + n] = img[n]
               /\ env[b + 1] = <<"CI", "=", "1">>
               /\ env[b + 2][1] = "CICADA_PIPELINE_FILE"
               /\ env[b + 3] = <<"CICADA_JOB", "=", "1">>
               /\ llb_in.github.some =>
                    env[b + 4] = <<"GITHUB_REPOSITORY", "=", llb_in.github.value>>
               /\ \A n \in 1..Len(TheJob.env) :
                    /\ env[c + n] = <<TheJob.env[n][1], "=", TheJob.env[n][2]>>
                    /\ LastValue(env, TheJob.env[n][1]) = TheJob.env[n][2]

C25_Witness ==
    /\ llb_pc = "once"
    /\ recipe.ok
    /\ Len(TheJob.steps) = 1
    /\ TheJob.steps[1].env = <<<<"A", "step">>>>
    /\ llb_in.jr.image_info.config.env = <<<<"A", "=", "image">>>>
    /\ TheJob.env = <<<<"A", "job">>>>
    /\ llb_in.github.some
    /\ Len(RecipeOps[2].env) = 7
    /\ LastValue(RecipeOps[2].env, "A") = "job"

\* C26: the recipe is one chain: the copy of the local files on the image,
\* then the steps in their declared order, each with its root filesystem on
\* the output of the operation before it and with no other operation of the
\* chain among its mounts; the result is the last of them.
C26_RecipeIsOneChain ==
    HasRecipe =>
        /\ Len(RecipeOps) = Len(TheJob.steps) + 1
        /\ RecipeOps[1].custom_name = <<"Copy local files">>
        /\ RecipeOps[1].mounts[1].input.kind = "image"
        /\ \A i \in 1..Len(TheJob.steps) :
            /\ RecipeOps[i + 1].args = <<"/bin/sh", "-c", TheJob.steps[i].run.command>>
            /\ RecipeOps[i + 1].mounts[1] = [kind |-> "layer", input |-> RecipeOps[i], dest |-> "/"]
            /\ \A m \in 2..Len(RecipeOps[i + 1].mounts) :
                RecipeOps[i + 1].mounts[m].kind # "layer"
        /\ RecipeOps[Len(RecipeOps)] = recipe.definition

C26_Witness ==
    /\ llb_pc = "once"
    /\ recipe.ok
    /\ Len(TheJob.steps) = MaxSteps
    /\ Len(RecipeOps) = MaxSteps + 1
    /\ TheJob.steps[1] # [TheJob.steps[2] EXCEPT !.run = TheJob.steps[1].run]

FirstBreak ==
    IF \E i \in 1..Len(results) :
           \/ results[i].result = "error"
           \/ results[i].result = "failure" /\ results[i].on_fail # "Ignore"
    THEN CHOOSE i \in 1..Len(results) :
           /\ \/ results[i].result = "error"
              \/ results[i].result = "failure" /\ results[i].on_fail # "Ignore"
           /\ \A j \in 1..(i - 1) :
                /\ results[j].result # "error"
                /\ results[j].result = "failure" => results[j].on_fail = "Ignore"
    ELSE 0

\* The results that are handled: those up to the first that ends the run.
Handled == IF FirstBreak = 0 THEN Len(results) ELSE FirstBreak

\* C28: nothing is logged and the exit code is untouched while a job of the
\* level is still running; the log lines are those of the results in the
\* order of the level, one each; once the loop is left the log ends with the
\* first Stop-policy failure or error, no later result has a line, and the
\* exit code is 1 exactly when there was such a result.
C28_ResultsHandledInLevelOrder ==
    /\ res_pc = "await" => res_log = <<>> /\ res_exit_code = 0
    /\ res_pc # "off" =>
        /\ Len(res_log) <= Handled
        /\ \A n \in 1..Len(res_log) : res_log[n][1] = n
        /\ \A n \in 1..Len(res_log) :
             res_log[n][2] = (IF results[n].result = "success" THEN "info"
                              ELSE IF results[n].result = "failure" /\ results[n].on_fail = "Ignore"
                              THEN "warn" ELSE "error")
        /\ res_exit_code = (IF FirstBreak # 0 /\ Len(res_log) >= FirstBreak THEN 1 ELSE 0)
    /\ res_pc \in {"after", "done"} => Len(res_log) = Handled
    /\ res_pc = "done" => res_exit = (IF FirstBreak = 0 THEN 0 ELSE 1)

C28_Witness ==
    /\ res_pc = "done"
    /\ Len(results) = 3
    /\ results[1].result = "failure" /\ results[1].on_fail = "Ignore"
    /\ results[2].result = "failure" /\ results[2].on_fail = "Stop"
    /\ results[3].result = "error"
    /\ res_log = <<<<1, "warn">>, <<2, "error">>>>
    /\ res_exit = 1

\* C29: under the fair scheduling of the tasks and with subprocesses that
\* end, every run ends: it is skipped at the trigger, fails at populate or at
\* a cycle, or leaves the level loop after a break, a JoinError or the last
\* level.
C29_EveryRunEnds == <>(pc = "exited")

C29_Witness ==
    /\ pc = "exited"
    /\ SortRan
    /\ Len(graph) = NumJobs
    /\ AllLevelsCompleted
    /\ exit = 0

\* The place of the job with the uuid in the job list of the document.
PositionOf(uuid) == CHOOSE n \in 1..Len(idx_doc) : idx_doc[n].job.uuid = uuid

\* C30: in every compiled recipe, the operation of a generated-function
\* step runs `cicada step <job> <step>` with the place of the job in the job
\* list of the document and the place of the step in the step list of the
\* job, both counted from 0.
C30_JobIndexIsDocumentPosition ==
    \A c \in 1..Len(idx_compiled) :
        LET p == PositionOf(idx_compiled[c].uuid)
            ops == Chain(idx_compiled[c].recipe.definition)
            steps == idx_doc[p].job.steps
        IN /\ idx_compiled[c].recipe.ok
           /\ Len(ops) = Len(steps) + 1
           /\ \A i \in 1..Len(steps) :
                steps[i].run.type = "DenoFunction" =>
                    ops[i + 1].args = <<"cicada", "step", ToString(p - 1), ToString(i - 1)>>

\* The job that is last in the document is the only one of the first level
\* and is compiled first, its uuid is not the least, and its generated
\* function gets the index of the document.
C30_Witness ==
    /\ idx_pc = "done"
    /\ Len(idx_doc) = NumJobs
    /\ Len(idx_compiled) = NumJobs
    /\ idx_compiled[1].uuid = idx_doc[NumJobs].job.uuid
    /\ idx_doc[1].job.depends_on = {idx_doc[NumJobs].job.uuid}
    /\ idx_doc[2].job.depends_on = {idx_doc[NumJobs].job.uuid}
    /\ idx_doc[NumJobs].job.depends_on = {}
    /\ \E u \in Uuids : u < idx_doc[NumJobs].job.uuid
    /\ Chain(idx_compiled[1].recipe.definition)[MaxSteps + 1].args =
            <<"cicada", "step", ToString(NumJobs - 1), ToString(MaxSteps - 1)>>

\* C31: at the trigger check, a function trigger with both the git event
\* and the base ref set ends the run with exit code 1 and no job started;
\* with either of the two unset the run goes on to read its jobs whatever
\* the trigger; an event other than push and pull_request never ends the
\* run with the exit code of a skip.
C31_FunctionTriggerIsHardError ==
    [][pc = "trigger" =>
        /\ (on.type = "DenoFunction" /\ git_event # "unset" /\ base_ref # "unset") =>
            /\ pc' = "exited"
            /\ exit' = 1
            /\ err' = TriggerFnError
            /\ jobs' = {}
            /\ task' = NoJobs
            /\ graph' = <<>>
        /\ (git_event = "unset" \/ base_ref = "unset") =>
            /\ pc' = "populate"
            /\ exit' = NoExit
            /\ err' = NoError
        /\ git_event \notin {"push", "pull_request"} => exit' # 2]_vars

C31_Witness ==
    /\ pc = "exited"
    /\ exit = 1
    /\ err = TriggerFnError
    /\ on.type = "DenoFunction"
    /\ git_event = "release"
    /\ base_ref \in Branches
    /\ task = NoJobs

\* C32: the argument vector of a step's operation is /bin/sh -c command for
\* a command under Sh or no shell, /bin/bash -c command under Bash, the
\* shell's own arguments and then the command, with nothing put between,
\* under a shell given as arguments; the arguments of an Args run as they
\* are, whatever the shell; cicada step job_index step_index for a generated
\* function.
C32_ArgumentVector ==
    llb_pc = "exec" =>
        LET step == llb_in.step
            run == step.run
        IN /\ (run.type = "Command" /\ ~step.shell.some) =>
                recipe.args = <<"/bin/sh", "-c", run.command>>
           /\ (run.type = "Command" /\ step.shell.some /\ step.shell.value.type = "Sh") =>
                recipe.args = <<"/bin/sh", "-c", run.command>>
           /\ (run.type = "Command" /\ step.shell.some /\ step.shell.value.type = "Bash") =>
                recipe.args = <<"/bin/bash", "-c", run.command>>
           /\ (run.type = "Command" /\ step.shell.some /\ step.shell.value.type = "Args") =>
                /\ Len(recipe.args) = Len(step.shell.value.args) + 1
                /\ SubSeq(recipe.args, 1, Len(step.shell.value.args)) = step.shell.value.args
                /\ recipe.args[Len(recipe.args)] = run.command
           /\ run.type = "Args" => recipe.args = run.args
           /\ run.type = "DenoFunction" =>
                recipe.args = <<"cicada", "step", ToString(llb_in.job_index),
                                ToString(llb_in.step_index)>>

C32_Witness ==
    /\ llb_pc = "exec"
    /\ llb_in.step.run.type = "Command"
    /\ llb_in.step.shell = Some([type |-> "Args", args |-> <<"python">>])
    /\ recipe.args = <<"python", "make test">>

\* The graph without its edges to ids that are no node of it.
WithoutUnknown(g) ==
    [i \in DOMAIN g |->
        [id |-> g[i].id, edges |-> SelectSeq(g[i].edges, LAMBDA e : e \in Ids(g))]]

\* C33: for nodes whose depends_on names ids that are no node, the inverted
\* graph has the nodes of the input and no edge from or to another id, the
\* sort does not panic on a missing node, and its result, levels or the
\* cycle error, is the result for the nodes without those entries; nodes
\* whose entries are all unknown are sorted without error into one level.
C33_UnknownDependencyIgnored ==
    inv_pc = "sorted" =>
        /\ Ids(inv_out) = Ids(inv_in)
        /\ ~MissingNode(inv_out)
        /\ inv_out2 # Panic
        /\ inv_out2 = topological_sort(
                          invert_graph(WithoutUnknown(inv_in),
                                       [i \in DOMAIN inv_out |-> inv_out[i].id]))
        /\ (\A i \in DOMAIN inv_in : \A e \in DOMAIN inv_in[i].edges :
                inv_in[i].edges[e] \notin Ids(inv_in)) =>
            /\ inv_out2.ok
            /\ inv_in # <<>> =>
                /\ Len(inv_out2.levels) = 1
                /\ Range(inv_out2.levels[1]) = Ids(inv_in)

C33_Witness ==
    /\ inv_pc = "sorted"
    /\ Len(inv_in) = MaxNodes
    /\ \E i \in DOMAIN inv_in : inv_in[i] = Node(1, <<0, 2>>)
    /\ \E i \in DOMAIN inv_in : inv_in[i] = Node(2, <<0>>)
    /\ inv_out2 = [ok |-> TRUE, levels |-> <<<<2>>, <<1>>>>]

\* The jobs that were taken out of the map and handed to a task.
Dispatched == {j \in PipelineJobs : task[j] # "none"}

\* C34: at every moment the jobs handed to a task and the jobs still in the
\* map are disjoint and are together the jobs of the document; when the run
\* has ended in success the map is empty and every job of the document was
\* started, from the one place it has in the levels.
C34_StartedAndPendingPartitionJobs ==
    /\ jobs \cap Dispatched = {}
    /\ jobs \cup Dispatched = PipelineJobs
    /\ (pc = "exited" /\ exit = 0) =>
        /\ jobs = {}
        /\ \A j \in PipelineJobs : Started(j) /\ Occurrences(j) = 1

C34_Witness ==
    /\ pc = "exited"
    /\ exit = 0
    /\ Cardinality(PipelineJobs) = NumJobs
    /\ Len(graph) = 2
    /\ jobs = {}
    /\ \E j \in PipelineJobs : task[j] = "exit1"
    /\ \A j \in PipelineJobs : Started(j)

\* The job of the document has no name.
Nameless(job) == ~idx_doc[job].some

\* C35: the task of a job without a name never yields an exit status: once
\* its subprocess is spawned it ends in a panic; no job of a level after
\* that of a dispatched nameless job is ever dispatched, and the run then
\* ends with exit code 1, under every on_fail policy of the job.
C35_NamelessJobEndsRun ==
    \A j \in PipelineJobs :
        Nameless(j) =>
            /\ task[j] \in {"none", "created", "running", "spawn_err", "panicked"}
            /\ task[j] # "none" =>
                /\ \A i \in PipelineJobs : LevelOf(i) > LevelOf(j) => task[i] = "none"
                /\ pc = "exited" => exit = 1

C35_Witness ==
    /\ pc = "exited"
    /\ exit = 1
    /\ err = JoinErr
    /\ Len(graph) >= 2
    /\ \E j \in PipelineJobs :
        /\ Nameless(j)
        /\ on_fail[j] = "Ignore"
        /\ task[j] = "panicked"
        /\ LevelOf(j) = 1
        /\ \E i \in PipelineJobs : LevelOf(i) = 2 /\ task[i] = "none"

\* C36: the spawned buildctl finds in BUILDKIT_HOST the target of the chosen
\* OCI backend, whatever the secrets are.
C36_BackendTargetIndependentOfSecrets ==
    sec_pc = "spawned" => sec_env["BUILDKIT_HOST"] = BackendTarget(sec_in.oci_backend)

\* ------------------------------------------------- the outcome of a schedule

\* main.rs:677: the levels the run gets when `jobs` iterates in order1 and
\* inverted_nodes in order2.
ScheduleOf(order1, order2) == topological_sort(invert_graph(Nodes(order1), order2))

\* main.rs:679-847 as a function of the levels, for tasks that all end with
\* an exit status (st gives the status of every job): every job of a
\* run_group is started, then the results are handled; a failed job with
\* on_fail Stop or without on_fail ends the loop with exit code 1.
RECURSIVE RunGroups(_, _, _, _)
RunGroups(levels, st, l, started) ==
    IF l > Len(levels) THEN [code |-> 0, started |-> started]
    ELSE LET now == started \cup Range(levels[l])
         IN IF \E j \in Range(levels[l]) : st[j] = "exit1" /\ on_fail[j] \in {"Stop", "None"}
            THEN [code |-> 1, started |-> now]
            ELSE RunGroups(levels, st, l + 1, now)

\* main.rs:677 (`?` on the cycle error), 679-847.
OutcomeOf(order1, order2, st) ==
    LET r == ScheduleOf(order1, order2)
    IN IF r.ok THEN RunGroups(r.levels, st, 1, {}) ELSE [code |-> 1, started |-> {}]

\* The run has ended from the level loop and every task it started returned
\* an exit status.
EndedOnStatuses ==
    /\ pc = "exited"
    /\ err = NoError
    /\ exit \in {0, 1}
    /\ Dispatched # {}
    /\ \A j \in PipelineJobs : task[j] \in {"none", "exit0", "exit1"}

\* The exit statuses of all jobs that agree with the ones the run has seen.
StatusesSeen ==
    {st \in [PipelineJobs -> {"exit0", "exit1"}] : \A j \in Dispatched : st[j] = task[j]}

\* RunGroups gives, for the levels the run had, the outcome the run had.
RunGroupsAgrees ==
    EndedOnStatuses =>
        \A st \in StatusesSeen :
            RunGroups(graph, st, 1, {}) = [code |-> exit, started |-> Dispatched]

\* C37: for a fixed pipeline and a fixed exit status of every job, the exit
\* code of the run and the set of jobs that were started are the same for
\* every order in which the two maps hand the nodes to the graph engine.
C37_OutcomeIndependentOfOrder ==
    EndedOnStatuses =>
        \A st \in StatusesSeen : \A order1, order2 \in Perms(PipelineJobs) :
            OutcomeOf(order1, order2, st) = [code |-> exit, started |-> Dispatched]

\* The part of C37 about the order inside a level: every order whose levels
\* hold, level by level, the jobs the run's levels hold gives the outcome of
\* the run.
C37_HoldsForEqualLevels ==
    EndedOnStatuses =>
        \A st \in StatusesSeen : \A order1, order2 \in Perms(PipelineJobs) :
            LET r == ScheduleOf(order1, order2)
            IN (r.ok /\ [l \in DOMAIN r.levels |-> Range(r.levels[l])]
                         = [l \in DOMAIN graph |-> Range(graph[l])]) =>
                OutcomeOf(order1, order2, st) = [code |-> exit, started |-> Dispatched]

====
